---------------------------- MODULE Spec2Model ----------------------------
(***************************************************************************)
(* Verification model of the fishi front-end orchestrator.                 *)
(*                                                                         *)
(* One route view is on screen at a time; `view` says which one a          *)
(* behaviour exercises:                                                    *)
(*   "run"     Step3Simulation.vue   (src/unnamed/part_003, first SFC)     *)
(*   "detail"  the same step, varying the action snapshots instead of the  *)
(*             run-status data                                             *)
(*   "reentry" the same step, mounted for a simulation that has already    *)
(*             completed on the server                                     *)
(*   "env"     Step2EnvSetup.vue     (src/unnamed/part_003, second SFC)    *)
(*   "envlog"  the same step: its status polls and their progress lines    *)
(*   "profiles" the same step: its profile requests                        *)
(*   "process" Process.vue           (src/frontend/src/views/Process.vue)  *)
(*   "snapshots" the same view, varying the graph snapshots the server     *)
(*             returns                                                     *)
(*   "log"     addLog of SimulationView / SimulationRunView                *)
(*   "back"    handleGoBack of SimulationRunView (src/unnamed/part_001)    *)
(*   "setup"   onMounted of SimulationView       (src/unnamed/part_000)    *)
(*   "api"     the calls of api/simulation.js through requestWithRetry     *)
(*   "retry"   requestWithRetry of api/index.js, called with any budget    *)
(*   "graph"   renderGraph of the graph panel    (src/unnamed/part_002)    *)
(*   "panel"   the click handlers and the detail panel of the same file    *)
(*   "rounds"  the round-count override from Step2EnvSetup through the     *)
(*             route to the start request of Step3Simulation               *)
(*                                                                         *)
(* JavaScript runs every callback to completion; an `await` ends the       *)
(* callback and the continuation is a later callback.  Each action below   *)
(* is one such run-to-completion piece: a handler up to its first await,   *)
(* or the continuation after a response.  Requests in flight are explicit  *)
(* state; the server's answer is chosen when the response is delivered.    *)
(***************************************************************************)
EXTENDS Integers, Sequences, FiniteSets, TLC

(***************************************************************************)
(* Bounds of the model                                                     *)
(***************************************************************************)
MaxInFlight == 2    \* poll requests of one kind awaiting their response
MaxRound == 1       \* largest round number the server reports
MaxSnap == 2        \* longest all_actions snapshot the server returns
MaxEdges == 3       \* most edge records of a graph snapshot

VARIABLES
    view,               \* which view the behaviour exercises
    mounted,            \* the view's component is mounted
    hasSimId,           \* props.simulationId is present
    currentStatus,      \* parent view: status indicator (update-status)
    last,               \* history: the callback that ran most recently
    \* --- environment shutdown (SimulationRunView, SimulationView) ---
    graphRefreshTimer,  \* SimulationRunView: handle of the graph refresh
    activeGraphRefresh, \* the graph refresh intervals that run
    pc,                 \* the await the shutdown sequence is suspended at
    closeEnvCalls,      \* history: close-env requests issued
    stopCalls,          \* history: stop requests issued
    envAlive,           \* history: what the liveness query reported
    closeResult,        \* history: how the close-env call ended
    running,            \* history: the simulation was reported as running
    proceeded,          \* router.push / loadSimulationData() was reached
    \* --- api/simulation.js, api/index.js ---
    api,                \* the call under way
    maxRetries,         \* requestWithRetry: its parameter (1 for a plain call)
    delay,              \* requestWithRetry: its parameter, in ms
    loopIndex,          \* requestWithRetry: the loop index i
    rpc,                \* where the call is: request in flight, sleeping, ...
    attempts,           \* history: requests sent by the call
    waited,             \* history: the delays slept, in ms
    errors,             \* history: the failures of the attempts
    thrown,             \* the error the caller received
    returned,           \* the value the caller received
    \* --- graph panel ---
    edgesData,          \* props.graphData.edges
    edges,              \* renderGraph: the edges it draws
    rendered,           \* renderGraph has run
    selectedItem,       \* the item the detail panel shows, or NoItem
    styles,             \* the attributes the click handlers set on the svg
    expandedSelfLoops,  \* ids of the expanded self-loop items
    click,              \* history: the last click on the svg
    \* --- round-count override (Step2EnvSetup to Step3Simulation) ---
    useCustomRounds,    \* Step2EnvSetup: the 'Custom' switch
    customMaxRounds,    \* Step2EnvSetup: the value of the slider
    route,              \* the route on screen
    routeQuery,         \* route.query.maxRounds, a string
    maxRounds,          \* SimulationRunView: the ref passed as a prop
    startParams,        \* the parameters of the latest start request
    chosen,             \* history: what the user had set on pressing start
    startCount,         \* history: start requests sent
    \* ---- Step3Simulation ----
    phase, isStarting, isStopping, startError, runStatus,
    allActions, actionIds, prevTwitterRound, prevRedditRound,
    statusTimer, detailTimer,
    activeStatus, activeDetail,   \* interval ids the browser still fires
    startReqs,                    \* start requests in flight
    statusReqs, detailReqs,       \* poll requests in flight
    \* ---- diagnostic log of SimulationView / SimulationRunView ----
    systemLogs,                   \* the entries the view keeps
    logCap,                       \* the capacity addLog of the view enforces
    pushCount,                    \* history: number of addLog calls so far
    \* ---- Step2EnvSetup (it shares `phase` with the other step) ----
    taskId, currentStage, profiles, lastLoggedProfileCount, simulationConfig,
    lastLoggedMessage,            \* key of the progress line logged last
    pollTimer, profilesTimer, configTimer,
    activePoll, activeProfiles, activeConfig,
    prepareReqs,                  \* prepareSimulation requests in flight
    prepStatusReqs, profilesReqs, configReqs,   \* poll requests in flight
    loadProfilesReqs,             \* loadPreparedData awaiting the profiles
    loadConfigReqs,               \* loadPreparedData awaiting the config
    \* ---- Process.vue ----
    routeNew,                     \* route.params.projectId === 'new'
    pendingUpload,                \* the store holds files pending upload
    currentPhase, error, loading, graphLoading, projectData, graphData,
    buildProgress, ontologyProgress,
    taskPollTimer,                \* `pollTimer` of Process.vue
    graphPollTimer,
    activeTaskPoll, activeGraphPoll,
    ontologyReqs, loadProjectReqs, buildReqs, taskReqs,
    graphProjectReqs,             \* fetchGraphData awaiting the project
    graphDataReqs,                \* fetchGraphData awaiting the graph
    finalProjectReqs,             \* completed task awaiting the project
    finalGraphReqs,               \* completed task awaiting the graph
    loadGraphReqs                 \* loadProject awaiting the graph

baseVars == <<view, mounted, hasSimId, currentStatus, last>>
runVars == <<phase, isStarting, isStopping, startError, runStatus,
             allActions, actionIds, prevTwitterRound, prevRedditRound,
             statusTimer, detailTimer, activeStatus, activeDetail,
             startReqs, statusReqs, detailReqs>>
runOnlyVars == <<isStarting, isStopping, startError, runStatus,
                 allActions, actionIds, prevTwitterRound, prevRedditRound,
                 statusTimer, detailTimer, activeStatus, activeDetail,
                 startReqs, statusReqs, detailReqs>>
logVars == <<systemLogs, logCap, pushCount>>
envVars == <<taskId, currentStage, profiles, lastLoggedProfileCount,
             lastLoggedMessage, simulationConfig, pollTimer, profilesTimer, configTimer,
             activePoll, activeProfiles, activeConfig, prepareReqs,
             prepStatusReqs, profilesReqs, configReqs, loadProfilesReqs,
             loadConfigReqs>>
procVars == <<routeNew, pendingUpload, currentPhase, error, loading,
              graphLoading, projectData, graphData, buildProgress,
              ontologyProgress, taskPollTimer, graphPollTimer, activeTaskPoll,
              activeGraphPoll, ontologyReqs, loadProjectReqs, buildReqs,
              taskReqs, graphProjectReqs, graphDataReqs, finalProjectReqs,
              finalGraphReqs, loadGraphReqs>>
refreshVars == <<graphRefreshTimer, activeGraphRefresh>>
backVars == <<pc, closeEnvCalls, stopCalls, envAlive, closeResult, running,
              proceeded, refreshVars>>
apiVars == <<api, maxRetries, delay, loopIndex, rpc, attempts, waited, errors,
             returned,
             thrown>>
graphVars == <<edgesData, edges, rendered, selectedItem, styles,
               expandedSelfLoops, click>>
roundsVars == <<useCustomRounds, customMaxRounds, route, routeQuery,
                maxRounds, startParams, chosen, startCount>>
pureVars == <<apiVars, graphVars, roundsVars>>
vars == <<baseVars, runVars, logVars, envVars, procVars, backVars, pureVars>>

Null == 0                       \* a timer variable holding null

\* Requests in flight, per kind: how many were issued since the latest
\* resetAllState ("fresh") and how many before it ("stale").  The code keeps
\* no such mark; it is history the properties refer to.
NoReqs == [fresh |-> 0, stale |-> 0]
Issue(reqs) == [reqs EXCEPT !.fresh = @ + 1]
Superseded(reqs) == [fresh |-> 0, stale |-> reqs.fresh + reqs.stale]
Pending(reqs, age) == IF age = "stale" THEN reqs.stale > 0 ELSE reqs.fresh > 0
Answer(reqs, age) == IF age = "stale" THEN [reqs EXCEPT !.stale = @ - 1]
                     ELSE [reqs EXCEPT !.fresh = @ - 1]
BagTotal(reqs) == reqs.fresh + reqs.stale
Ages == {"fresh", "stale"}

\* setInterval returns an id no live interval has
NewTimer(active) == IF active = {} THEN 1
                    ELSE 1 + CHOOSE m \in active : \A x \in active : x <= m

\* a stop function, on the handle a component keeps and the intervals that
\* run: if (timer) { clearInterval(timer); timer = null }
StopTimer(p) ==
    IF p.timer # Null
    THEN [timer |-> Null, active |-> p.active \ {p.timer}]
    ELSE p

(***************************************************************************)
(* Small helpers                                                           *)
(***************************************************************************)
\* the record of a callback: its name, whether it answered a request issued
\* before the latest reset, whether it fired a completion, how many records
\* it added, how the request ended, and which lines it appended to the
\* diagnostic log.  line is the key of the latest progress line appended to
\* the log and polled the progress part of the latest prepare-status
\* response; callbacks that poll no prepare status carry both over.
\* phaseBefore is the phase the view showed when its latest job submission
\* was attempted; callbacks that submit nothing carry it over, and it is 0
\* again once the simulation has started.
\* snap is the graph snapshot the callback received, NoGraph if none.
NoGraph == [node_count |-> 0, rev |-> 0]    \* graphData.value = null

Op(name) == [op |-> name, stale |-> FALSE, fired |-> FALSE, added |-> 0,
             outcome |-> "", logs |-> {}, phaseBefore |-> last.phaseBefore,
             line |-> last.line, polled |-> last.polled, snap |-> NoGraph]

\* a failed read-only request: network error, parse error or a response the
\* interceptor rejected
RequestFailed == "request_failed"

\* emit('update-status', s): a component that is no longer mounted emits nothing
Emit(s) == IF mounted THEN s ELSE currentStatus

\* emit('add-log', msg) for each of `lines`, under the same condition
Logged(lines) == IF mounted THEN lines ELSE {}

IsPrefix(s, t) == /\ Len(s) <= Len(t)
                  /\ \A i \in 1..Len(s) : s[i] = t[i]

(***************************************************************************)
(* Step3Simulation: server data                                            *)
(***************************************************************************)
EmptyStatus == [tag |-> "empty"]            \* runStatus.value = {}
StartData == [tag |-> "start"]              \* res.data of /simulation/start

RunData == [tag : {"run"},
            runner_status : {"running", "completed"},
            twitter_current_round : 0..MaxRound,
            reddit_current_round : 0..MaxRound,
            total_rounds : {MaxRound},
            twitter_completed : BOOLEAN,
            reddit_completed : BOOLEAN]

NoId == 0                                   \* action.id absent (falsy)
\* two records with the same explicit id and different content, and one
\* record without id
ActionRecords ==
    {a \in [id : {NoId, 1},
            timestamp : {1},
            platform : {"twitter", "reddit"},
            agent_id : {1},
            action_type : {"CREATE_POST"}] :
        a.id = NoId => a.platform = "twitter"}

Snapshots == UNION {[1..k -> ActionRecords] : k \in 0..MaxSnap}

\* the run-status answers the "run" specification varies
VariedRunData ==
    {d \in RunData :
        /\ d.reddit_current_round \in {0, MaxRound}
        \* a 'completed' runner is represented by the answer in which no
        \* platform is done, where runner_status alone decides
        /\ d.runner_status = "completed" =>
              /\ d.twitter_current_round = 0 /\ d.reddit_current_round = 0
              /\ ~d.twitter_completed /\ ~d.reddit_completed}

\* the run-status answers of a running simulation with both platforms at
\* the same round
SteadyRunData ==
    {d \in RunData : /\ d.runner_status = "running"
                     /\ d.twitter_current_round = d.reddit_current_round
                     /\ d.twitter_current_round \in {0, MaxRound}
                     /\ ~d.twitter_completed /\ ~d.reddit_completed}

\* The two specifications of the simulation-run step run the same actions and
\* differ in which server input they vary: "run" varies the run-status data,
\* "detail" varies the all_actions snapshots.
RunDataOf(v) == IF v = "run" THEN VariedRunData ELSE SteadyRunData

SnapshotsOf(v) ==
    IF v = "detail" THEN Snapshots ELSE {<< >>}

\* poll requests of one kind that may await their response at the same time
InFlightBound(kind) ==
    IF (kind = "status" /\ view = "run") \/ (kind = "detail" /\ view = "detail")
    THEN MaxInFlight ELSE 1

IsRun == view \in {"run", "detail", "reentry"}

\* what a callback of the simulation-run step leaves alone
RunFrame == UNCHANGED <<logVars, envVars, procVars, backVars, pureVars>>

\* action.id || `${timestamp}-${platform}-${agent_id}-${action_type}`
ActionKey(a) ==
    IF a.id # NoId
    THEN [id |-> a.id, timestamp |-> 0, platform |-> "", agent_id |-> 0,
          action_type |-> ""]
    ELSE [id |-> NoId, timestamp |-> a.timestamp, platform |-> a.platform,
          agent_id |-> a.agent_id, action_type |-> a.action_type]

\* { ...action, _uniqueId: actionId }
Stored(a) == [id |-> a.id, timestamp |-> a.timestamp, platform |-> a.platform,
              agent_id |-> a.agent_id, action_type |-> a.action_type,
              uniqueId |-> ActionKey(a)]

\* variants of IngestOne with a plausible slip each
IngestOne_NoCheck(st, a) ==
    [log |-> Append(st.log, Stored(a)),
     ids |-> st.ids \cup {ActionKey(a)},
     added |-> st.added + 1]

IngestOne_NoAdd(st, a) ==
    IF ActionKey(a) \notin st.ids
    THEN [log |-> Append(st.log, Stored(a)),
          ids |-> st.ids,
          added |-> st.added + 1]
    ELSE st

IngestOne_Unshift(st, a) ==
    IF ActionKey(a) \notin st.ids
    THEN [log |-> <<Stored(a)>> \o st.log,
          ids |-> st.ids \cup {ActionKey(a)},
          added |-> st.added + 1]
    ELSE st

\* one iteration of serverActions.forEach in fetchRunStatusDetail
IngestOne(st, a) ==
    IF ActionKey(a) \notin st.ids
    THEN [log |-> Append(st.log, Stored(a)),
          ids |-> st.ids \cup {ActionKey(a)},
          added |-> st.added + 1]
    ELSE st

\* the forEach loop of fetchRunStatusDetail over a snapshot
RECURSIVE IngestFrom(_, _, _)
IngestFrom(st, snap, i) ==
    IF i > Len(snap) THEN st
    ELSE IngestFrom(IngestOne(st, snap[i]), snap, i + 1)

IngestActions(log, ids, snap) ==
    IngestFrom([log |-> log, ids |-> ids, added |-> 0], snap, 1)

\* variant of checkPlatformsCompleted: one finished platform is enough
CheckPlatformsCompleted_Either(data) ==
    \/ data.twitter_completed
    \/ (data.twitter_current_round > 0
        /\ data.twitter_current_round >= data.total_rounds)
    \/ data.reddit_completed
    \/ (data.reddit_current_round > 0
        /\ data.reddit_current_round >= data.total_rounds)

\* checkPlatformsCompleted(data)
CheckPlatformsCompleted(data) ==
    LET twitterFinished ==
            \/ data.twitter_completed
            \/ (data.twitter_current_round > 0
                /\ data.twitter_current_round >= data.total_rounds)
        redditFinished ==
            \/ data.reddit_completed
            \/ (data.reddit_current_round > 0
                /\ data.reddit_current_round >= data.total_rounds)
    IN twitterFinished /\ redditFinished

\* data.runner_status === 'completed' || data.runner_status === 'stopped'
IsCompleted(data) == data.runner_status \in {"completed", "stopped"}

(***************************************************************************)
(* Step3Simulation: operations                                             *)
(*                                                                         *)
(* handleStopSimulation is bound to no control of the template and has no  *)
(* caller, so isStopping stays false and no stop request is ever issued.   *)
(***************************************************************************)
\* stopPolling(): the values of the timer state after the call
StopPolling ==
    [statusTimer |-> Null,
     activeStatus |-> activeStatus \ {statusTimer},
     detailTimer |-> Null,
     activeDetail |-> activeDetail \ {detailTimer}]

\* variant of resetAllState without the trailing stopPolling()
ResetAllState_NoStop ==
    [phase |-> 0,
     runStatus |-> EmptyStatus,
     allActions |-> << >>,
     actionIds |-> {},
     prevTwitterRound |-> 0,
     prevRedditRound |-> 0,
     startError |-> "",
     isStarting |-> FALSE,
     isStopping |-> FALSE,
     statusTimer |-> statusTimer,
     activeStatus |-> activeStatus,
     detailTimer |-> detailTimer,
     activeDetail |-> activeDetail]

\* resetAllState(): the values of the component state after the call
ResetAllState ==
    [phase |-> 0,
     runStatus |-> EmptyStatus,
     allActions |-> << >>,
     actionIds |-> {},
     prevTwitterRound |-> 0,
     prevRedditRound |-> 0,
     startError |-> "",
     isStarting |-> FALSE,
     isStopping |-> FALSE,
     statusTimer |-> StopPolling.statusTimer,
     activeStatus |-> StopPolling.activeStatus,
     detailTimer |-> StopPolling.detailTimer,
     activeDetail |-> StopPolling.activeDetail]

\* doStartSimulation() up to `await startSimulation(params)`
DoStartSimulation(caller) ==
    /\ hasSimId
    /\ LET r == ResetAllState IN
        /\ phase' = r.phase
        /\ runStatus' = r.runStatus
        /\ allActions' = r.allActions
        /\ actionIds' = r.actionIds
        /\ prevTwitterRound' = r.prevTwitterRound
        /\ prevRedditRound' = r.prevRedditRound
        /\ isStopping' = r.isStopping
        /\ statusTimer' = r.statusTimer
        /\ activeStatus' = r.activeStatus
        /\ detailTimer' = r.detailTimer
        /\ activeDetail' = r.activeDetail
    /\ isStarting' = TRUE
    /\ startError' = ""
    /\ currentStatus' = Emit("processing")
    /\ startReqs' = Issue(Superseded(startReqs))
    /\ statusReqs' = Superseded(statusReqs)
    /\ detailReqs' = Superseded(detailReqs)
    /\ last' = [Op(caller) EXCEPT !.logs = {"starting"},
                                  !.phaseBefore = phase]

\* onMounted of Step3Simulation
OnMountedRun ==
    /\ IsRun
    /\ RunFrame
    /\ ~mounted /\ last.op = "init"
    /\ mounted' = TRUE
    /\ UNCHANGED <<view, hasSimId>>
    /\ IF hasSimId
       THEN DoStartSimulation("doStartSimulation")
       ELSE /\ last' = Op("onMounted")
            /\ UNCHANGED <<currentStatus, runVars>>

\* the simulation is started again while the step is on screen; isStarting
\* is the flag the component keeps for the time a start is under way
Restart ==
    /\ IsRun
    /\ RunFrame
    /\ mounted /\ ~isStarting
    /\ DoStartSimulation("doStartSimulation_again")
    /\ UNCHANGED <<view, mounted, hasSimId>>

DoStartOps == {"doStartSimulation", "doStartSimulation_again"}

\* doStartSimulation() after the await: res.success && res.data
StartSucceeded(age) ==
    /\ IsRun
    /\ RunFrame
    /\ Pending(startReqs, age)
    /\ startReqs' = Answer(startReqs, age)
    /\ phase' = 1
    /\ runStatus' = StartData
    /\ statusTimer' = NewTimer(activeStatus)          \* startStatusPolling()
    /\ activeStatus' = activeStatus \cup {NewTimer(activeStatus)}
    /\ detailTimer' = NewTimer(activeDetail)          \* startDetailPolling()
    /\ activeDetail' = activeDetail \cup {NewTimer(activeDetail)}
    /\ isStarting' = FALSE
    /\ last' = [Op("startSucceeded") EXCEPT
                   !.stale = (age = "stale"),
                   !.logs = Logged({"started"}),
                   !.phaseBefore = IF age = "stale" THEN @ ELSE 0]
    /\ UNCHANGED <<view, mounted, hasSimId, currentStatus, isStopping,
                   startError, allActions, actionIds, prevTwitterRound,
                   prevRedditRound, statusReqs, detailReqs>>

\* doStartSimulation() after the await: the else branch and the catch
StartFailed(age) ==
    /\ IsRun
    /\ RunFrame
    /\ Pending(startReqs, age)
    /\ startReqs' = Answer(startReqs, age)
    /\ startError' = "Start failed"
    /\ currentStatus' = Emit("error")
    /\ isStarting' = FALSE
    /\ last' = [Op("startFailed") EXCEPT !.stale = (age = "stale"),
                                         !.outcome = "failed",
                                         !.logs = Logged({"start_failed"})]
    /\ UNCHANGED <<view, mounted, hasSimId, phase, isStopping, runStatus,
                   allActions, actionIds, prevTwitterRound, prevRedditRound,
                   statusTimer, detailTimer, activeStatus, activeDetail,
                   statusReqs, detailReqs>>

\* a tick of a run-status interval: fetchRunStatus() up to its await
StatusTick(t) ==
    /\ IsRun
    /\ RunFrame
    /\ t \in activeStatus
    /\ hasSimId
    /\ BagTotal(statusReqs) < InFlightBound("status")
    /\ statusReqs' = Issue(statusReqs)
    /\ last' = Op("statusTick")
    /\ UNCHANGED <<view, mounted, hasSimId, currentStatus, phase, isStarting,
                   isStopping, startError, runStatus, allActions, actionIds,
                   prevTwitterRound, prevRedditRound, statusTimer, detailTimer,
                   activeStatus, activeDetail, startReqs, detailReqs>>

\* fetchRunStatus() after the await, with res.success && res.data
FetchRunStatus(age, data) ==
    /\ IsRun
    /\ RunFrame
    /\ Pending(statusReqs, age)
    /\ statusReqs' = Answer(statusReqs, age)
    /\ runStatus' = data
    /\ prevTwitterRound' =
           IF data.twitter_current_round > prevTwitterRound
           THEN data.twitter_current_round ELSE prevTwitterRound
    /\ prevRedditRound' =
           IF data.reddit_current_round > prevRedditRound
           THEN data.reddit_current_round ELSE prevRedditRound
    /\ LET isCompleted == IsCompleted(data)
           platformsCompleted == CheckPlatformsCompleted(data)
           rounds ==
               (IF data.twitter_current_round > prevTwitterRound
                THEN {"twitter_round"} ELSE {})
               \cup (IF data.reddit_current_round > prevRedditRound
                     THEN {"reddit_round"} ELSE {})
       IN IF isCompleted \/ platformsCompleted
          THEN /\ phase' = 2
               /\ statusTimer' = StopPolling.statusTimer
               /\ activeStatus' = StopPolling.activeStatus
               /\ detailTimer' = StopPolling.detailTimer
               /\ activeDetail' = StopPolling.activeDetail
               /\ currentStatus' = Emit("completed")
               /\ last' = [Op("fetchRunStatus") EXCEPT
                              !.stale = (age = "stale"), !.fired = TRUE,
                              !.logs = Logged(
                                  rounds \cup {"completed"} \cup
                                  (IF platformsCompleted /\ ~isCompleted
                                   THEN {"platforms_completed"} ELSE {}))]
          ELSE /\ last' = [Op("fetchRunStatus") EXCEPT
                              !.stale = (age = "stale"),
                              !.logs = Logged(rounds)]
               /\ UNCHANGED <<phase, statusTimer, activeStatus, detailTimer,
                              activeDetail, currentStatus>>
    /\ UNCHANGED <<view, mounted, hasSimId, isStarting, isStopping, startError,
                   allActions, actionIds, startReqs, detailReqs>>

\* fetchRunStatus(): the request failed, or the body carries no data
FetchRunStatusFailed(age) ==
    /\ IsRun
    /\ RunFrame
    /\ Pending(statusReqs, age)
    /\ statusReqs' = Answer(statusReqs, age)
    /\ last' = [Op("fetchRunStatusFailed") EXCEPT !.stale = (age = "stale"),
                                                  !.outcome = RequestFailed]
    /\ UNCHANGED <<view, mounted, hasSimId, currentStatus, phase, isStarting,
                   isStopping, startError, runStatus, allActions, actionIds,
                   prevTwitterRound, prevRedditRound, statusTimer, detailTimer,
                   activeStatus, activeDetail, startReqs, detailReqs>>

\* a tick of a run-detail interval: fetchRunStatusDetail() up to its await
DetailTick(t) ==
    /\ IsRun
    /\ RunFrame
    /\ t \in activeDetail
    /\ hasSimId
    /\ BagTotal(detailReqs) < InFlightBound("detail")
    /\ detailReqs' = Issue(detailReqs)
    /\ last' = Op("detailTick")
    /\ UNCHANGED <<view, mounted, hasSimId, currentStatus, phase, isStarting,
                   isStopping, startError, runStatus, allActions, actionIds,
                   prevTwitterRound, prevRedditRound, statusTimer, detailTimer,
                   activeStatus, activeDetail, startReqs, statusReqs>>

\* fetchRunStatusDetail() after the await, with res.success && res.data
FetchRunStatusDetail(age, serverActions) ==
    /\ IsRun
    /\ RunFrame
    /\ Pending(detailReqs, age)
    /\ detailReqs' = Answer(detailReqs, age)
    /\ LET r == IngestActions(allActions, actionIds, serverActions) IN
        /\ allActions' = r.log
        /\ actionIds' = r.ids
        /\ last' = [Op("fetchRunStatusDetail") EXCEPT
                       !.stale = (age = "stale"),
                       !.added = r.added]
    /\ UNCHANGED <<view, mounted, hasSimId, currentStatus, phase, isStarting,
                   isStopping, startError, runStatus, prevTwitterRound,
                   prevRedditRound, statusTimer, detailTimer, activeStatus,
                   activeDetail, startReqs, statusReqs>>

\* fetchRunStatusDetail(): the request failed, or the body carries no data
FetchRunStatusDetailFailed(age) ==
    /\ IsRun
    /\ RunFrame
    /\ Pending(detailReqs, age)
    /\ detailReqs' = Answer(detailReqs, age)
    /\ last' = [Op("fetchRunStatusDetailFailed") EXCEPT
                   !.stale = (age = "stale"), !.outcome = RequestFailed]
    /\ UNCHANGED <<view, mounted, hasSimId, currentStatus, phase, isStarting,
                   isStopping, startError, runStatus, allActions, actionIds,
                   prevTwitterRound, prevRedditRound, statusTimer, detailTimer,
                   activeStatus, activeDetail, startReqs, statusReqs>>

\* onUnmounted of Step3Simulation
OnUnmountedRun ==
    /\ IsRun
    /\ RunFrame
    /\ mounted
    /\ mounted' = FALSE
    /\ statusTimer' = StopPolling.statusTimer
    /\ activeStatus' = StopPolling.activeStatus
    /\ detailTimer' = StopPolling.detailTimer
    /\ activeDetail' = StopPolling.activeDetail
    /\ last' = Op("onUnmounted")
    /\ UNCHANGED <<view, hasSimId, currentStatus, phase, isStarting,
                   isStopping, startError, runStatus, allActions, actionIds,
                   prevTwitterRound, prevRedditRound, startReqs,
                   statusReqs, detailReqs>>

(***************************************************************************)
(* Step2EnvSetup                                                           *)
(*                                                                         *)
(* A callback that assigns currentStage queues the stage watcher; Vue runs *)
(* it after the synchronous part of the callback and before any other      *)
(* response or timer, so the watcher is the tail of the same action.       *)
(***************************************************************************)
MaxProfiles == 1                \* most profiles a response carries

\* profile requests of the interval awaiting their response; the profiles
\* view has a request overtaken by a later one
ProfilesInFlight == IF view = "profiles" THEN MaxInFlight ELSE 1

\* res.data.profiles.length of a response: the profiles view tells a
\* shorter list from an empty one, the other views an empty list from the
\* longest one
ProfileCounts ==
    IF view = "profiles" THEN 0..(MaxProfiles + 1) ELSE {0, MaxProfiles}

NoStage == "none"               \* the response names no stage
StageNames == {"", "generating_profiles", "generating_config",
               "copying_scripts"}

IsEnv == view \in {"env", "envlog", "profiles"}
IsEnvLog == view = "envlog"

\* progress_detail of a response, as far as the progress log reads it: the
\* logKey `${current_stage}-${current_item}-${total_items}` and whether
\* item_description is non-empty
LogKeys == {"1-1-2", "1-2-2"}
NoDetail == [key |-> "", described |-> FALSE]       \* no progress_detail
ProgressDetails == [key : LogKeys, described : BOOLEAN]
Messages == {"[1/4] reading entities"}              \* data.message

\* res.data of /prepare/status: 'ready' and already_prepared act as
\* 'completed'; stage is the name the response gives the current stage, by
\* progress_detail.current_stage_name or by the prefix of its message, so a
\* response with neither names none.  Only the log view tells the progress
\* parts of the responses apart.
PrepareStatusData ==
    IF IsEnvLog
    THEN [stage : StageNames,
          status : {"processing", "completed", "failed"},
          detail : ProgressDetails, message : {""}]
         \cup [stage : StageNames \cup {NoStage},
                status : {"processing", "completed", "failed"},
                detail : {NoDetail}, message : Messages]
         \cup [stage : {NoStage},
                status : {"processing", "completed", "failed"},
                detail : {NoDetail}, message : {""}]
    ELSE [stage : StageNames \cup {NoStage},
          status : {"processing", "completed", "failed"},
          detail : {NoDetail}, message : {""}]

ProgressLine_NoDedup(data) ==
    IF data.detail # NoDetail
    THEN IF data.detail.described THEN data.detail.key ELSE ""
    ELSE data.message

\* the key of the progress line pollPrepareStatus logs for a response, ""
\* if it logs none: the logKey of progress_detail if it differs from
\* lastLoggedMessage and item_description is non-empty, else the message
\* if the response has one that differs from lastLoggedMessage
ProgressLine(data) ==
    IF data.detail # NoDetail
    THEN IF data.detail.key # lastLoggedMessage /\ data.detail.described
         THEN data.detail.key ELSE ""
    ELSE IF data.message # "" /\ data.message # lastLoggedMessage
         THEN data.message ELSE ""

\* what a callback of the environment-setup step leaves alone
EnvFrame == UNCHANGED <<runOnlyVars, logVars, procVars, backVars, pureVars>>

\* the part of the state the watcher and loadPreparedData work on
ConfigState == [phase |-> phase, configTimer |-> configTimer,
                activeConfig |-> activeConfig]

\* startConfigPolling(): configTimer = setInterval(fetchConfigRealtime, 2000)
StartConfigPolling(st) ==
    [st EXCEPT !.configTimer = NewTimer(st.activeConfig),
               !.activeConfig = @ \cup {NewTimer(st.activeConfig)}]

\* stopConfigPolling()
StopConfigPolling(st) ==
    [st EXCEPT !.configTimer = Null,
               !.activeConfig = @ \ {st.configTimer}]

\* watch(currentStage, (newStage) => ...)
WatchCurrentStage(newStage, st) ==
    IF newStage = "generating_profiles" THEN [st EXCEPT !.phase = 1]
    ELSE IF newStage = "generating_config"
    THEN IF st.configTimer = Null
         THEN StartConfigPolling([st EXCEPT !.phase = 2])
         ELSE [st EXCEPT !.phase = 2]
    ELSE IF newStage = "copying_scripts" THEN [st EXCEPT !.phase = 2]
    ELSE st

\* the log watermark after fetchProfilesRealtime stored `count` profiles
ProfileWatermark(count) ==
    IF count > 0 /\ count # lastLoggedProfileCount
    THEN count ELSE lastLoggedProfileCount

\* onMounted of Step2EnvSetup: startPrepareSimulation() up to its await
OnMountedEnv ==
    /\ IsEnv
    /\ EnvFrame
    /\ ~mounted /\ last.op = "init"
    /\ mounted' = TRUE
    /\ last' = [Op("onMounted") EXCEPT
                   !.logs = IF hasSimId THEN {"initializing", "preparing"}
                            ELSE {},
                   !.phaseBefore = phase]
    /\ IF hasSimId
       THEN /\ phase' = 1
            /\ currentStatus' = "processing"
            /\ prepareReqs' = prepareReqs + 1
       ELSE UNCHANGED <<phase, currentStatus, prepareReqs>>
    /\ UNCHANGED <<view, hasSimId, taskId, currentStage, profiles,
                   lastLoggedProfileCount,
                   lastLoggedMessage, simulationConfig, pollTimer,
                   profilesTimer, configTimer, activePoll, activeProfiles,
                   activeConfig, prepStatusReqs, profilesReqs, configReqs,
                   loadProfilesReqs, loadConfigReqs>>

\* startPrepareSimulation() after the await: a task was started
PrepareStarted ==
    /\ IsEnv
    /\ EnvFrame
    /\ prepareReqs > 0
    /\ prepareReqs' = prepareReqs - 1
    /\ taskId' = 1
    /\ pollTimer' = NewTimer(activePoll)                \* startPolling()
    /\ activePoll' = activePoll \cup {NewTimer(activePoll)}
    /\ profilesTimer' = NewTimer(activeProfiles)        \* startProfilesPolling()
    /\ activeProfiles' = activeProfiles \cup {NewTimer(activeProfiles)}
    /\ last' = [Op("prepareStarted") EXCEPT
                   !.logs = Logged({"task_started", "polling_started"})]
    /\ UNCHANGED <<view, mounted, hasSimId, currentStatus, phase, currentStage,
                   profiles, lastLoggedProfileCount,
                   lastLoggedMessage, simulationConfig,
                   configTimer, activeConfig, prepStatusReqs, profilesReqs,
                   configReqs, loadProfilesReqs, loadConfigReqs>>

\* startPrepareSimulation() after the await: already_prepared, which runs
\* loadPreparedData() up to its first await
PrepareAlreadyPrepared ==
    /\ IsEnv
    /\ EnvFrame
    /\ prepareReqs > 0
    /\ prepareReqs' = prepareReqs - 1
    /\ phase' = 2
    /\ loadProfilesReqs' = loadProfilesReqs + 1
    /\ last' = [Op("prepareAlreadyPrepared") EXCEPT
                   !.logs = Logged({"already_prepared", "loading_prepared"})]
    /\ UNCHANGED <<view, mounted, hasSimId, currentStatus, taskId, currentStage,
                   profiles, lastLoggedProfileCount,
                   lastLoggedMessage, simulationConfig,
                   pollTimer, profilesTimer, configTimer, activePoll,
                   activeProfiles, activeConfig, prepStatusReqs, profilesReqs,
                   configReqs, loadConfigReqs>>

\* startPrepareSimulation() after the await: the else branch and the catch
PrepareFailed ==
    /\ IsEnv
    /\ EnvFrame
    /\ prepareReqs > 0
    /\ prepareReqs' = prepareReqs - 1
    /\ currentStatus' = Emit("error")
    /\ last' = [Op("prepareFailed") EXCEPT
                   !.outcome = "failed",
                   !.logs = Logged({"prepare_failed"})]
    /\ UNCHANGED <<view, mounted, hasSimId, phase, taskId, currentStage,
                   profiles, lastLoggedProfileCount,
                   lastLoggedMessage, simulationConfig,
                   pollTimer, profilesTimer, configTimer, activePoll,
                   activeProfiles, activeConfig, prepStatusReqs, profilesReqs,
                   configReqs, loadProfilesReqs, loadConfigReqs>>

\* a tick of the prepare-status interval: pollPrepareStatus() up to its await
PrepStatusTick(t) ==
    /\ IsEnv
    /\ EnvFrame
    /\ t \in activePoll
    /\ taskId # Null \/ hasSimId
    /\ prepStatusReqs < MaxInFlight
    /\ prepStatusReqs' = prepStatusReqs + 1
    /\ last' = Op("prepStatusTick")
    /\ UNCHANGED <<view, mounted, hasSimId, currentStatus, phase, taskId,
                   currentStage, profiles, lastLoggedProfileCount,
                   lastLoggedMessage,
                   simulationConfig, pollTimer, profilesTimer, configTimer,
                   activePoll, activeProfiles, activeConfig, prepareReqs,
                   profilesReqs, configReqs, loadProfilesReqs, loadConfigReqs>>

\* pollPrepareStatus() after the await, with res.success && res.data; on a
\* completed status it runs loadPreparedData() up to its first await, and
\* the stage watcher runs last
PollPrepareStatus(data) ==
    /\ IsEnv
    /\ EnvFrame
    /\ prepStatusReqs > 0
    /\ prepStatusReqs' = prepStatusReqs - 1
    /\ LET newStage == IF data.stage = NoStage THEN currentStage
                       ELSE data.stage
           done == data.status = "completed"
           failed == data.status = "failed"
           sync == IF done THEN [ConfigState EXCEPT !.phase = 2]
                   ELSE ConfigState
           flushed == IF newStage # currentStage
                      THEN WatchCurrentStage(newStage, sync) ELSE sync
       IN /\ currentStage' = newStage
          /\ phase' = flushed.phase
          /\ configTimer' = flushed.configTimer
          /\ activeConfig' = flushed.activeConfig
          /\ IF done \/ failed
             THEN /\ pollTimer' = Null                  \* stopPolling()
                  /\ activePoll' = activePoll \ {pollTimer}
                  /\ profilesTimer' = Null              \* stopProfilesPolling()
                  /\ activeProfiles' = activeProfiles \ {profilesTimer}
             ELSE UNCHANGED <<pollTimer, activePoll, profilesTimer,
                              activeProfiles>>
          /\ loadProfilesReqs' = IF done THEN loadProfilesReqs + 1
                                 ELSE loadProfilesReqs
          /\ lastLoggedMessage' = IF ProgressLine(data) # ""
                                  THEN ProgressLine(data)
                                  ELSE lastLoggedMessage
          /\ last' = [Op("pollPrepareStatus") EXCEPT
                         !.fired = done \/ failed,
                         !.outcome = data.status,
                         !.line = IF mounted /\ ProgressLine(data) # ""
                                  THEN ProgressLine(data) ELSE @,
                         !.polled = [detail |-> data.detail,
                                     message |-> data.message],
                         !.logs = Logged(
                             (IF ProgressLine(data) # "" THEN {"progress"}
                              ELSE {})
                             \cup
                             (IF done THEN {"prepare_completed",
                                            "loading_prepared"} ELSE {})
                             \cup (IF failed THEN {"prepare_task_failed"}
                                   ELSE {})
                             \cup (IF flushed.activeConfig # activeConfig
                                   THEN {"config_started"} ELSE {}))]
    /\ UNCHANGED <<view, mounted, hasSimId, currentStatus, taskId, profiles,
                   lastLoggedProfileCount, simulationConfig, prepareReqs,
                   profilesReqs, configReqs, loadConfigReqs>>

\* pollPrepareStatus(): the request failed, or the body carries no data
PollPrepareStatusFailed ==
    /\ IsEnv
    /\ EnvFrame
    /\ prepStatusReqs > 0
    /\ prepStatusReqs' = prepStatusReqs - 1
    /\ last' = [Op("pollPrepareStatusFailed") EXCEPT
                   !.outcome = RequestFailed]
    /\ UNCHANGED <<view, mounted, hasSimId, currentStatus, phase, taskId,
                   currentStage, profiles, lastLoggedProfileCount,
                   lastLoggedMessage,
                   simulationConfig, pollTimer, profilesTimer, configTimer,
                   activePoll, activeProfiles, activeConfig, prepareReqs,
                   profilesReqs, configReqs, loadProfilesReqs, loadConfigReqs>>

\* a tick of the profiles interval: fetchProfilesRealtime() up to its await
ProfilesTick(t) ==
    /\ IsEnv
    /\ EnvFrame
    /\ t \in activeProfiles
    /\ hasSimId
    /\ profilesReqs < ProfilesInFlight
    /\ profilesReqs' = profilesReqs + 1
    /\ last' = Op("profilesTick")
    /\ UNCHANGED <<view, mounted, hasSimId, currentStatus, phase, taskId,
                   currentStage, profiles, lastLoggedProfileCount,
                   lastLoggedMessage,
                   simulationConfig, pollTimer, profilesTimer, configTimer,
                   activePoll, activeProfiles, activeConfig, prepareReqs,
                   prepStatusReqs, configReqs, loadProfilesReqs,
                   loadConfigReqs>>

\* fetchProfilesRealtime() after the await; ok = res.success && res.data
FetchProfilesRealtime(ok, count) ==
    /\ IsEnv
    /\ EnvFrame
    /\ profilesReqs > 0
    /\ profilesReqs' = profilesReqs - 1
    /\ profiles' = IF ok THEN count ELSE profiles
    /\ lastLoggedProfileCount' = IF ok THEN ProfileWatermark(count)
                                 ELSE lastLoggedProfileCount
    /\ last' = [Op("fetchProfilesRealtime") EXCEPT
                   !.outcome = IF ok THEN "" ELSE RequestFailed,
                   !.logs = IF ok /\ ProfileWatermark(count)
                                      # lastLoggedProfileCount
                            THEN Logged({"profile_progress"}) ELSE {}]
    /\ UNCHANGED <<view, mounted, hasSimId, currentStatus, phase, taskId,
                   currentStage, lastLoggedMessage, simulationConfig,
                   pollTimer, profilesTimer,
                   configTimer, activePoll, activeProfiles, activeConfig,
                   prepareReqs, prepStatusReqs, configReqs, loadProfilesReqs,
                   loadConfigReqs>>

\* a tick of a config interval: fetchConfigRealtime() up to its await
ConfigTick(t) ==
    /\ IsEnv
    /\ EnvFrame
    /\ t \in activeConfig
    /\ hasSimId
    /\ configReqs < 1
    /\ configReqs' = configReqs + 1
    /\ last' = Op("configTick")
    /\ UNCHANGED <<view, mounted, hasSimId, currentStatus, phase, taskId,
                   currentStage, profiles, lastLoggedProfileCount,
                   lastLoggedMessage,
                   simulationConfig, pollTimer, profilesTimer, configTimer,
                   activePoll, activeProfiles, activeConfig, prepareReqs,
                   prepStatusReqs, profilesReqs, loadProfilesReqs,
                   loadConfigReqs>>

\* fetchConfigRealtime() after the await
\*   "generated"  res.success && res.data && config_generated && config
\*   "pending"    the configuration is not generated yet
\*   "error"      the request failed
FetchConfigRealtime(outcome) ==
    /\ IsEnv
    /\ EnvFrame
    /\ configReqs > 0
    /\ configReqs' = configReqs - 1
    /\ IF outcome = "generated"
       THEN /\ simulationConfig' = TRUE
            /\ configTimer' = StopConfigPolling(ConfigState).configTimer
            /\ activeConfig' = StopConfigPolling(ConfigState).activeConfig
            /\ phase' = 4
            /\ currentStatus' = Emit("completed")
       ELSE UNCHANGED <<simulationConfig, configTimer, activeConfig, phase,
                        currentStatus>>
    /\ last' = [Op("fetchConfigRealtime") EXCEPT
                   !.fired = (outcome = "generated"),
                   !.outcome = IF outcome = "error" THEN RequestFailed
                               ELSE outcome,
                   !.logs = IF outcome = "generated"
                            THEN Logged({"config_completed", "setup_complete"})
                            ELSE {}]
    /\ UNCHANGED <<view, mounted, hasSimId, taskId, currentStage, profiles,
                   lastLoggedProfileCount,
                   lastLoggedMessage, pollTimer, profilesTimer,
                   activePoll, activeProfiles, prepareReqs, prepStatusReqs,
                   profilesReqs, loadProfilesReqs, loadConfigReqs>>

\* loadPreparedData() after `await fetchProfilesRealtime()`, up to the await
\* of the config request
LoadPreparedProfiles(ok, count) ==
    /\ IsEnv
    /\ EnvFrame
    /\ loadProfilesReqs > 0
    /\ loadProfilesReqs' = loadProfilesReqs - 1
    /\ profiles' = IF ok THEN count ELSE profiles
    /\ lastLoggedProfileCount' = IF ok THEN ProfileWatermark(count)
                                 ELSE lastLoggedProfileCount
    /\ loadConfigReqs' = loadConfigReqs + 1
    /\ last' = [Op("loadPreparedProfiles") EXCEPT
                   !.logs = Logged({"loaded_profiles"}) \cup
                            (IF ok /\ ProfileWatermark(count)
                                      # lastLoggedProfileCount
                             THEN Logged({"profile_progress"}) ELSE {})]
    /\ UNCHANGED <<view, mounted, hasSimId, currentStatus, phase, taskId,
                   currentStage, lastLoggedMessage, simulationConfig,
                   pollTimer, profilesTimer,
                   configTimer, activePoll, activeProfiles, activeConfig,
                   prepareReqs, prepStatusReqs, profilesReqs, configReqs>>

\* loadPreparedData() after the await of the config request
\*   "generated"  config_generated && config
\*   "pending"    the configuration is not generated yet
\*   "nodata"     the body carries no data
\*   "error"      the request failed
LoadPreparedConfig(outcome) ==
    /\ IsEnv
    /\ EnvFrame
    /\ loadConfigReqs > 0
    /\ loadConfigReqs' = loadConfigReqs - 1
    /\ simulationConfig' = IF outcome = "generated" THEN TRUE
                           ELSE simulationConfig
    /\ phase' = IF outcome = "generated" THEN 4 ELSE phase
    /\ currentStatus' = IF outcome = "generated" THEN Emit("completed")
                        ELSE IF outcome = "error" THEN Emit("error")
                        ELSE currentStatus
    /\ configTimer' = IF outcome = "pending"
                      THEN StartConfigPolling(ConfigState).configTimer
                      ELSE configTimer
    /\ activeConfig' = IF outcome = "pending"
                       THEN StartConfigPolling(ConfigState).activeConfig
                       ELSE activeConfig
    /\ last' = [Op("loadPreparedConfig") EXCEPT
                   !.fired = (outcome = "generated"),
                   !.outcome = outcome,
                   !.logs = Logged(
                       IF outcome = "generated"
                       THEN {"config_loaded", "setup_complete"}
                       ELSE IF outcome = "pending" THEN {"config_polling"}
                       ELSE IF outcome = "error" THEN {"config_load_failed"}
                       ELSE {})]
    /\ UNCHANGED <<view, mounted, hasSimId, taskId, currentStage, profiles,
                   lastLoggedProfileCount,
                   lastLoggedMessage, pollTimer, profilesTimer,
                   activePoll, activeProfiles, prepareReqs, prepStatusReqs,
                   profilesReqs, configReqs, loadProfilesReqs>>

\* onUnmounted of Step2EnvSetup
OnUnmountedEnv ==
    /\ IsEnv
    /\ EnvFrame
    /\ mounted
    /\ mounted' = FALSE
    /\ pollTimer' = Null
    /\ activePoll' = activePoll \ {pollTimer}
    /\ profilesTimer' = Null
    /\ activeProfiles' = activeProfiles \ {profilesTimer}
    /\ configTimer' = StopConfigPolling(ConfigState).configTimer
    /\ activeConfig' = StopConfigPolling(ConfigState).activeConfig
    /\ last' = Op("onUnmounted")
    /\ UNCHANGED <<view, hasSimId, currentStatus, phase, taskId, currentStage,
                   profiles, lastLoggedProfileCount,
                   lastLoggedMessage, simulationConfig,
                   prepareReqs, prepStatusReqs, profilesReqs, configReqs,
                   loadProfilesReqs, loadConfigReqs>>

(***************************************************************************)
(* Process.vue: ontology generation, graph build, task and graph polling   *)
(***************************************************************************)
MaxNodes == 1                   \* largest node count of a graph snapshot

NoProject == [status |-> "none"]            \* projectData.value = null
\* res.data of /api/graph/project/<id>, as far as the view reads it
Projects ==
    {p \in [status : {"created", "ontology_generated", "graph_building",
                      "graph_completed", "failed"},
            graph_id : BOOLEAN,
            graph_build_task_id : BOOLEAN] :
        p.graph_build_task_id => p.status = "graph_building"}
\* what the server reports of a project whose build task was started
BuildingProjects ==
    {p \in Projects : \/ p.status = "graph_building" /\ p.graph_build_task_id
                      \/ p.status = "graph_completed"}
\* res.data of /api/graph/ontology/generate
OntologyProject == [status |-> "ontology_generated", graph_id |-> FALSE,
                    graph_build_task_id |-> FALSE]

\* res.data of /api/graph/data/<id>: its node count and which content it has
GraphSnaps == [node_count : 0..MaxNodes, rev : {1, 2}]
\* the process view varies the project and task answers and keeps one
\* content of the largest graph; the snapshots view varies the graph answers
GraphSnapsOf(v) ==
    IF v = "snapshots" THEN GraphSnaps
    ELSE {g \in GraphSnaps : g.rev = 1 /\ g.node_count = MaxNodes}

NoProgress == "none"                        \* buildProgress.value = null
Sources == {"poll", "refresh"}              \* who called fetchGraphData

IsProcess == view \in {"process", "snapshots"}

\* what a callback of Process.vue leaves alone
ProcessFrame ==
    UNCHANGED <<hasSimId, currentStatus, runVars, logVars, envVars, backVars,
                pureVars>>

\* variant that stops the task poller and leaves the graph poller running
StopTaskAndGraphPolling_TaskOnly ==
    [taskPollTimer |-> Null,
     activeTaskPoll |-> activeTaskPoll \ {taskPollTimer},
     graphPollTimer |-> graphPollTimer,
     activeGraphPoll |-> activeGraphPoll]

\* stopPolling() and stopGraphPolling(): the timer state after both calls
StopTaskAndGraphPolling ==
    [taskPollTimer |-> Null,
     activeTaskPoll |-> activeTaskPoll \ {taskPollTimer},
     graphPollTimer |-> Null,
     activeGraphPoll |-> activeGraphPoll \ {graphPollTimer}]

\* onMounted: initProject() up to the first await of handleNewProject() or
\* loadProject()
OnMountedProcess ==
    /\ IsProcess
    /\ ProcessFrame
    /\ ~mounted /\ last.op = "init"
    /\ mounted' = TRUE
    /\ last' = Op("onMounted")
    /\ IF routeNew
       THEN IF ~pendingUpload
            THEN /\ error' = "No files pending upload"
                 /\ loading' = FALSE
                 /\ UNCHANGED <<currentPhase, ontologyProgress, ontologyReqs,
                                loadProjectReqs>>
            ELSE /\ loading' = TRUE
                 /\ currentPhase' = 0
                 /\ ontologyProgress' = TRUE
                 /\ ontologyReqs' = ontologyReqs + 1
                 /\ UNCHANGED <<error, loadProjectReqs>>
       ELSE /\ loading' = TRUE
            /\ loadProjectReqs' = loadProjectReqs + 1
            /\ UNCHANGED <<error, currentPhase, ontologyProgress, ontologyReqs>>
    /\ UNCHANGED <<view, routeNew, pendingUpload, graphLoading, projectData,
                   graphData, buildProgress, taskPollTimer, graphPollTimer,
                   activeTaskPoll, activeGraphPoll, buildReqs, taskReqs,
                   graphProjectReqs, graphDataReqs, finalProjectReqs,
                   finalGraphReqs, loadGraphReqs>>

\* handleNewProject() after the await, response.success: it runs
\* startBuildGraph() up to its await
OntologyGenerated ==
    /\ IsProcess
    /\ ProcessFrame
    /\ ontologyReqs > 0
    /\ ontologyReqs' = ontologyReqs - 1
    /\ pendingUpload' = FALSE                   \* clearPendingUpload()
    /\ projectData' = OntologyProject
    /\ ontologyProgress' = FALSE
    /\ currentPhase' = 1
    /\ buildProgress' = "starting"
    /\ buildReqs' = buildReqs + 1
    /\ last' = [Op("ontologyGenerated") EXCEPT !.phaseBefore = currentPhase]
    /\ UNCHANGED <<view, mounted, routeNew, error, loading, graphLoading,
                   graphData, taskPollTimer, graphPollTimer, activeTaskPoll,
                   activeGraphPoll, loadProjectReqs, taskReqs,
                   graphProjectReqs, graphDataReqs, finalProjectReqs,
                   finalGraphReqs, loadGraphReqs>>

\* variant that goes on to submit the build after a failed generation
OntologyFailed_StartsBuild ==
    /\ IsProcess
    /\ ProcessFrame
    /\ ontologyReqs > 0
    /\ ontologyReqs' = ontologyReqs - 1
    /\ error' = "Project initialization failed"
    /\ loading' = FALSE
    /\ buildReqs' = buildReqs + 1
    /\ last' = Op("ontologyFailed")
    /\ UNCHANGED <<view, mounted, routeNew, pendingUpload, currentPhase,
                   graphLoading, projectData, graphData, buildProgress,
                   ontologyProgress, taskPollTimer, graphPollTimer,
                   activeTaskPoll, activeGraphPoll, loadProjectReqs,
                   taskReqs, graphProjectReqs, graphDataReqs, finalProjectReqs,
                   finalGraphReqs, loadGraphReqs>>

\* handleNewProject() after the await: the catch and the finally
OntologyFailed ==
    /\ IsProcess
    /\ ProcessFrame
    /\ ontologyReqs > 0
    /\ ontologyReqs' = ontologyReqs - 1
    /\ error' = "Project initialization failed"
    /\ loading' = FALSE
    /\ last' = Op("ontologyFailed")
    /\ UNCHANGED <<view, mounted, routeNew, pendingUpload, currentPhase,
                   graphLoading, projectData, graphData, buildProgress,
                   ontologyProgress, taskPollTimer, graphPollTimer,
                   activeTaskPoll, activeGraphPoll, loadProjectReqs, buildReqs,
                   taskReqs, graphProjectReqs, graphDataReqs, finalProjectReqs,
                   finalGraphReqs, loadGraphReqs>>

\* updatePhaseByStatus(status): the phase it leaves
PhaseByStatus(status) ==
    IF status \in {"created", "ontology_generated"} THEN 0
    ELSE IF status = "graph_building" THEN 1
    ELSE IF status = "graph_completed" THEN 2
    ELSE currentPhase

\* loadProject() after the await, response.success, up to its next await or
\* its end
LoadProject(data) ==
    /\ IsProcess
    /\ ProcessFrame
    /\ loadProjectReqs > 0
    /\ loadProjectReqs' = loadProjectReqs - 1
    /\ projectData' = data
    /\ error' = IF data.status = "failed" THEN "Processing failed" ELSE error
    /\ last' = [Op("loadProject") EXCEPT
                   !.phaseBefore =
                       IF data.status = "ontology_generated" /\ ~data.graph_id
                       THEN PhaseByStatus(data.status) ELSE @]
    /\ LET build == data.status = "ontology_generated" /\ ~data.graph_id
           resume == data.status = "graph_building" /\ data.graph_build_task_id
           show == data.status = "graph_completed" /\ data.graph_id
       IN /\ currentPhase' = IF build THEN 1 ELSE PhaseByStatus(data.status)
          /\ buildProgress' = IF build THEN "starting" ELSE buildProgress
          /\ buildReqs' = IF build THEN buildReqs + 1 ELSE buildReqs
          /\ taskReqs' = IF resume THEN taskReqs + 1 ELSE taskReqs
          /\ taskPollTimer' = IF resume THEN NewTimer(activeTaskPoll)
                              ELSE taskPollTimer
          /\ activeTaskPoll' = IF resume
                               THEN activeTaskPoll \cup {NewTimer(activeTaskPoll)}
                               ELSE activeTaskPoll
          /\ graphLoading' = IF show THEN TRUE ELSE graphLoading
          /\ loadGraphReqs' = IF show THEN loadGraphReqs + 1 ELSE loadGraphReqs
          /\ loading' = IF build \/ show THEN loading ELSE FALSE
    /\ UNCHANGED <<view, mounted, routeNew, pendingUpload, graphData,
                   ontologyProgress, graphPollTimer, activeGraphPoll,
                   ontologyReqs, graphProjectReqs, graphDataReqs,
                   finalProjectReqs, finalGraphReqs>>

\* loadProject() after the await: the catch and the finally
LoadProjectFailed ==
    /\ IsProcess
    /\ ProcessFrame
    /\ loadProjectReqs > 0
    /\ loadProjectReqs' = loadProjectReqs - 1
    /\ error' = "Failed to load project"
    /\ loading' = FALSE
    /\ last' = Op("loadProjectFailed")
    /\ UNCHANGED <<view, mounted, routeNew, pendingUpload, currentPhase,
                   graphLoading, projectData, graphData, buildProgress,
                   ontologyProgress, taskPollTimer, graphPollTimer,
                   activeTaskPoll, activeGraphPoll, ontologyReqs, buildReqs,
                   taskReqs, graphProjectReqs, graphDataReqs, finalProjectReqs,
                   finalGraphReqs, loadGraphReqs>>

\* startBuildGraph() after the await, response.success: startGraphPolling(),
\* startPollingTask(taskId), then the finally of the caller.  With
\* buildProgress null the assignment to its message throws and the catch
\* runs, which is BuildFailed.
BuildStarted ==
    /\ IsProcess
    /\ ProcessFrame
    /\ buildReqs > 0 /\ buildProgress # NoProgress
    /\ buildReqs' = buildReqs - 1
    /\ buildProgress' = "started"
    /\ graphProjectReqs' = [graphProjectReqs EXCEPT !.poll = @ + 1]
    /\ graphPollTimer' = NewTimer(activeGraphPoll)
    /\ activeGraphPoll' = activeGraphPoll \cup {NewTimer(activeGraphPoll)}
    /\ taskReqs' = taskReqs + 1
    /\ taskPollTimer' = NewTimer(activeTaskPoll)
    /\ activeTaskPoll' = activeTaskPoll \cup {NewTimer(activeTaskPoll)}
    /\ loading' = FALSE
    /\ last' = Op("buildStarted")
    /\ UNCHANGED <<view, mounted, routeNew, pendingUpload, currentPhase, error,
                   graphLoading, projectData, graphData, ontologyProgress,
                   ontologyReqs, loadProjectReqs, graphDataReqs,
                   finalProjectReqs, finalGraphReqs, loadGraphReqs>>

\* startBuildGraph() after the await: the else branch and the catch, then
\* the finally of the caller
BuildFailed ==
    /\ IsProcess
    /\ ProcessFrame
    /\ buildReqs > 0
    /\ buildReqs' = buildReqs - 1
    /\ error' = "Failed to start graph building"
    /\ buildProgress' = NoProgress
    /\ loading' = FALSE
    /\ last' = [Op("buildFailed") EXCEPT !.outcome = "failed"]
    /\ UNCHANGED <<view, mounted, routeNew, pendingUpload, currentPhase,
                   graphLoading, projectData, graphData, ontologyProgress,
                   taskPollTimer, graphPollTimer, activeTaskPoll,
                   activeGraphPoll, ontologyReqs, loadProjectReqs, taskReqs,
                   graphProjectReqs, graphDataReqs, finalProjectReqs,
                   finalGraphReqs, loadGraphReqs>>

\* a tick of the task-status interval: pollTaskStatus(taskId) up to its await
TaskTick(t) ==
    /\ IsProcess
    /\ ProcessFrame
    /\ t \in activeTaskPoll
    /\ taskReqs < MaxInFlight
    /\ taskReqs' = taskReqs + 1
    /\ last' = Op("taskTick")
    /\ UNCHANGED <<view, mounted, routeNew, pendingUpload, currentPhase, error,
                   loading, graphLoading, projectData, graphData,
                   buildProgress, ontologyProgress, taskPollTimer,
                   graphPollTimer, activeTaskPoll, activeGraphPoll,
                   ontologyReqs, loadProjectReqs, buildReqs, graphProjectReqs,
                   graphDataReqs, finalProjectReqs, finalGraphReqs,
                   loadGraphReqs>>

\* pollTaskStatus() after the await, response.success, up to its next await
\* or its end
PollTaskStatus(status) ==
    /\ IsProcess
    /\ ProcessFrame
    /\ taskReqs > 0
    /\ taskReqs' = taskReqs - 1
    /\ LET terminal == status \in {"completed", "failed"}
           timers == IF terminal
                     THEN StopTaskAndGraphPolling
                     ELSE [taskPollTimer |-> taskPollTimer,
                           activeTaskPoll |-> activeTaskPoll,
                           graphPollTimer |-> graphPollTimer,
                           activeGraphPoll |-> activeGraphPoll]
       IN /\ taskPollTimer' = timers.taskPollTimer
          /\ activeTaskPoll' = timers.activeTaskPoll
          /\ graphPollTimer' = timers.graphPollTimer
          /\ activeGraphPoll' = timers.activeGraphPoll
          /\ last' = [Op("pollTaskStatus") EXCEPT !.fired = terminal]
    /\ currentPhase' = IF status = "completed" THEN 2 ELSE currentPhase
    /\ buildProgress' = IF status = "completed" THEN "done"
                        ELSE IF status = "failed" THEN NoProgress
                        ELSE "progress"
    /\ error' = IF status = "failed" THEN "Graph building failed" ELSE error
    /\ finalProjectReqs' = IF status = "completed" THEN finalProjectReqs + 1
                           ELSE finalProjectReqs
    /\ UNCHANGED <<view, mounted, routeNew, pendingUpload, loading,
                   graphLoading, projectData, graphData, ontologyProgress,
                   ontologyReqs, loadProjectReqs, buildReqs, graphProjectReqs,
                   graphDataReqs, finalGraphReqs, loadGraphReqs>>

PollTaskStatusFailed_StopsPolling ==
    /\ IsProcess
    /\ ProcessFrame
    /\ taskReqs > 0
    /\ taskReqs' = taskReqs - 1
    /\ taskPollTimer' = Null
    /\ activeTaskPoll' = activeTaskPoll \ {taskPollTimer}
    /\ last' = [Op("pollTaskStatusFailed") EXCEPT !.outcome = RequestFailed]
    /\ UNCHANGED <<view, mounted, routeNew, pendingUpload, currentPhase, error,
                   loading, graphLoading, projectData, graphData,
                   buildProgress, ontologyProgress,
                   graphPollTimer, activeGraphPoll,
                   ontologyReqs, loadProjectReqs, buildReqs, graphProjectReqs,
                   graphDataReqs, finalProjectReqs, finalGraphReqs,
                   loadGraphReqs>>

\* pollTaskStatus(): the request failed
PollTaskStatusFailed ==
    /\ IsProcess
    /\ ProcessFrame
    /\ taskReqs > 0
    /\ taskReqs' = taskReqs - 1
    /\ last' = [Op("pollTaskStatusFailed") EXCEPT !.outcome = RequestFailed]
    /\ UNCHANGED <<view, mounted, routeNew, pendingUpload, currentPhase, error,
                   loading, graphLoading, projectData, graphData,
                   buildProgress, ontologyProgress, taskPollTimer,
                   graphPollTimer, activeTaskPoll, activeGraphPoll,
                   ontologyReqs, loadProjectReqs, buildReqs, graphProjectReqs,
                   graphDataReqs, finalProjectReqs, finalGraphReqs,
                   loadGraphReqs>>

\* pollTaskStatus() on 'completed', after `await getProject(...)`: with a
\* graph_id it runs loadGraph() up to its await, else it clears the progress
FinalProject(data) ==
    /\ IsProcess
    /\ ProcessFrame
    /\ finalProjectReqs > 0
    /\ finalProjectReqs' = finalProjectReqs - 1
    /\ projectData' = data
    /\ graphLoading' = IF data.graph_id THEN TRUE ELSE graphLoading
    /\ finalGraphReqs' = IF data.graph_id THEN finalGraphReqs + 1
                         ELSE finalGraphReqs
    /\ buildProgress' = IF data.graph_id THEN buildProgress ELSE NoProgress
    /\ last' = Op("finalProject")
    /\ UNCHANGED <<view, mounted, routeNew, pendingUpload, currentPhase, error,
                   loading, graphData, ontologyProgress, taskPollTimer,
                   graphPollTimer, activeTaskPoll, activeGraphPoll,
                   ontologyReqs, loadProjectReqs, buildReqs, taskReqs,
                   graphProjectReqs, graphDataReqs, loadGraphReqs>>

\* pollTaskStatus() on 'completed': getProject failed, the outer catch runs
FinalProjectFailed ==
    /\ IsProcess
    /\ ProcessFrame
    /\ finalProjectReqs > 0
    /\ finalProjectReqs' = finalProjectReqs - 1
    /\ last' = [Op("finalProjectFailed") EXCEPT !.outcome = RequestFailed]
    /\ UNCHANGED <<view, mounted, routeNew, pendingUpload, currentPhase, error,
                   loading, graphLoading, projectData, graphData,
                   buildProgress, ontologyProgress, taskPollTimer,
                   graphPollTimer, activeTaskPoll, activeGraphPoll,
                   ontologyReqs, loadProjectReqs, buildReqs, taskReqs,
                   graphProjectReqs, graphDataReqs, finalGraphReqs,
                   loadGraphReqs>>

\* loadGraph() after the await; caller is "final" (pollTaskStatus, which then
\* clears the progress) or "load" (loadProject, whose finally runs then)
LoadGraph(caller, ok, snap) ==
    /\ IsProcess
    /\ ProcessFrame
    /\ IF caller = "final"
       THEN /\ finalGraphReqs > 0
            /\ finalGraphReqs' = finalGraphReqs - 1
            /\ buildProgress' = NoProgress
            /\ UNCHANGED <<loadGraphReqs, loading>>
       ELSE /\ loadGraphReqs > 0
            /\ loadGraphReqs' = loadGraphReqs - 1
            /\ loading' = FALSE
            /\ UNCHANGED <<finalGraphReqs, buildProgress>>
    /\ graphData' = IF ok THEN snap ELSE graphData
    /\ graphLoading' = FALSE
    /\ last' = [Op("loadGraph") EXCEPT
                   !.outcome = IF ok THEN caller ELSE "",
                   !.snap = IF ok THEN snap ELSE NoGraph]
    /\ UNCHANGED <<view, mounted, routeNew, pendingUpload, currentPhase, error,
                   projectData, ontologyProgress, taskPollTimer,
                   graphPollTimer, activeTaskPoll, activeGraphPoll,
                   ontologyReqs, loadProjectReqs, buildReqs, taskReqs,
                   graphProjectReqs, graphDataReqs, finalProjectReqs>>

\* a tick of the graph interval: fetchGraphData() up to its first await
GraphTick(t) ==
    /\ IsProcess
    /\ ProcessFrame
    /\ t \in activeGraphPoll
    /\ graphProjectReqs.poll + graphDataReqs.poll < 1
    /\ graphProjectReqs' = [graphProjectReqs EXCEPT !.poll = @ + 1]
    /\ last' = Op("graphTick")
    /\ UNCHANGED <<view, mounted, routeNew, pendingUpload, currentPhase, error,
                   loading, graphLoading, projectData, graphData,
                   buildProgress, ontologyProgress, taskPollTimer,
                   graphPollTimer, activeTaskPoll, activeGraphPoll,
                   ontologyReqs, loadProjectReqs, buildReqs, taskReqs,
                   graphDataReqs, finalProjectReqs, finalGraphReqs,
                   loadGraphReqs>>

\* the refresh button: refreshGraph() up to the first await of fetchGraphData()
RefreshGraph ==
    /\ IsProcess
    /\ ProcessFrame
    /\ mounted /\ ~graphLoading
    /\ graphProjectReqs.refresh + graphDataReqs.refresh < 1
    /\ graphLoading' = TRUE
    /\ graphProjectReqs' = [graphProjectReqs EXCEPT !.refresh = @ + 1]
    /\ last' = Op("refreshGraph")
    /\ UNCHANGED <<view, mounted, routeNew, pendingUpload, currentPhase, error,
                   loading, projectData, graphData, buildProgress,
                   ontologyProgress, taskPollTimer, graphPollTimer,
                   activeTaskPoll, activeGraphPoll, ontologyReqs,
                   loadProjectReqs, buildReqs, taskReqs, graphDataReqs,
                   finalProjectReqs, finalGraphReqs, loadGraphReqs>>

\* fetchGraphData() after `await getProject(...)`; ok = the request
\* succeeded.  Without a graph_id the call ends, and refreshGraph() resets
\* graphLoading
FetchGraphProject(src, ok, data) ==
    /\ IsProcess
    /\ ProcessFrame
    /\ graphProjectReqs[src] > 0
    /\ graphProjectReqs' = [graphProjectReqs EXCEPT ![src] = @ - 1]
    /\ LET goOn == ok /\ data.graph_id
       IN /\ projectData' = IF goOn THEN data ELSE projectData
          /\ graphDataReqs' = IF goOn THEN [graphDataReqs EXCEPT ![src] = @ + 1]
                              ELSE graphDataReqs
          /\ graphLoading' = IF ~goOn /\ src = "refresh" THEN FALSE
                             ELSE graphLoading
    /\ last' = [Op("fetchGraphProject") EXCEPT
                   !.outcome = IF ok THEN "" ELSE RequestFailed]
    /\ UNCHANGED <<view, mounted, routeNew, pendingUpload, currentPhase, error,
                   loading, graphData, buildProgress, ontologyProgress,
                   taskPollTimer, graphPollTimer, activeTaskPoll,
                   activeGraphPoll, ontologyReqs, loadProjectReqs, buildReqs,
                   taskReqs, finalProjectReqs, finalGraphReqs, loadGraphReqs>>

\* fetchGraphData() after `await getGraphData(graphId)`; ok =
\* graphResponse.success && graphResponse.data
FetchGraphData(src, ok, snap) ==
    /\ IsProcess
    /\ ProcessFrame
    /\ graphDataReqs[src] > 0
    /\ graphDataReqs' = [graphDataReqs EXCEPT ![src] = @ - 1]
    /\ graphData' = IF ok /\ (snap.node_count # graphData.node_count
                              \/ graphData = NoGraph)
                    THEN snap ELSE graphData
    /\ graphLoading' = IF src = "refresh" THEN FALSE ELSE graphLoading
    /\ last' = [Op("fetchGraphData") EXCEPT
                   !.outcome = IF ok THEN "" ELSE RequestFailed,
                   !.snap = IF ok THEN snap ELSE NoGraph]
    /\ UNCHANGED <<view, mounted, routeNew, pendingUpload, currentPhase, error,
                   loading, projectData, buildProgress, ontologyProgress,
                   taskPollTimer, graphPollTimer, activeTaskPoll,
                   activeGraphPoll, ontologyReqs, loadProjectReqs, buildReqs,
                   taskReqs, graphProjectReqs, finalProjectReqs,
                   finalGraphReqs, loadGraphReqs>>

\* onUnmounted of Process.vue
OnUnmountedProcess ==
    /\ IsProcess
    /\ ProcessFrame
    /\ mounted
    /\ mounted' = FALSE
    /\ taskPollTimer' = StopTaskAndGraphPolling.taskPollTimer
    /\ activeTaskPoll' = StopTaskAndGraphPolling.activeTaskPoll
    /\ graphPollTimer' = StopTaskAndGraphPolling.graphPollTimer
    /\ activeGraphPoll' = StopTaskAndGraphPolling.activeGraphPoll
    /\ last' = Op("onUnmounted")
    /\ UNCHANGED <<view, routeNew, pendingUpload, currentPhase, error, loading,
                   graphLoading, projectData, graphData, buildProgress,
                   ontologyProgress, ontologyReqs, loadProjectReqs, buildReqs,
                   taskReqs, graphProjectReqs, graphDataReqs,
                   finalProjectReqs, finalGraphReqs, loadGraphReqs>>

(***************************************************************************)
(* Round-count override: handleStartSimulation of Step2EnvSetup,           *)
(* handleNextStep of SimulationView, the setup of SimulationRunView and    *)
(* doStartSimulation of Step3Simulation                                    *)
(***************************************************************************)
MaxSlider == 15                 \* autoGeneratedRounds, the slider's maximum
MaxStarts == 3                  \* start requests of one behaviour

IsRounds == view = "rounds"

RoundsFrame ==
    UNCHANGED <<baseVars, runVars, logVars, envVars, procVars, backVars,
                apiVars, graphVars>>

DefaultRounds == 40             \* customMaxRounds = ref(40), the 40 mark
\* the values the slider (min 10, step 5) and the 40 mark give
SliderValues ==
    {v \in 10..MaxSlider : (v - 10) % 5 = 0} \cup {DefaultRounds}

Undefined == -1                 \* a parameter that is absent, or null
NoQuery == << >>                \* the route has no maxRounds query
NoStart == [sent |-> FALSE, max_rounds |-> Undefined]
NoChoice == [custom |-> FALSE, value |-> Undefined]

\* JavaScript truthiness of a number or of an absent value
Truthy(x) == x # Undefined /\ x # 0

\* String(n) for n >= 0, as the router writes a query value: its decimal
\* digits
RECURSIVE ToQueryString(_)
ToQueryString(n) ==
    IF n < 10 THEN <<n>> ELSE Append(ToQueryString(n \div 10), n % 10)

\* parseInt(s) of a string of decimal digits
RECURSIVE parseInt(_)
parseInt(s) ==
    IF Len(s) = 1 THEN s[1]
    ELSE 10 * parseInt(SubSeq(s, 1, Len(s) - 1)) + s[Len(s)]

\* the 'Custom' switch of Step2EnvSetup
ToggleCustomRounds ==
    /\ IsRounds
    /\ RoundsFrame
    /\ route = "Simulation"
    /\ useCustomRounds' = ~useCustomRounds
    /\ UNCHANGED <<customMaxRounds, route, routeQuery, maxRounds, startParams,
                   chosen, startCount>>

\* the slider and the 40 mark, shown while the switch is on
SetCustomRounds(v) ==
    /\ IsRounds
    /\ RoundsFrame
    /\ route = "Simulation" /\ useCustomRounds
    /\ v # customMaxRounds
    /\ customMaxRounds' = v
    /\ UNCHANGED <<useCustomRounds, route, routeQuery, maxRounds, startParams,
                   chosen, startCount>>

\* variant that writes the slider's value into the route whatever the switch
QueryOf_IgnoresSwitch(custom, value) ==
    ToQueryString(value)

\* handleStartSimulation() and handleNextStep(params): the maxRounds query
\* of the route pushed
QueryOf(custom, value) ==
    LET params == IF custom THEN value ELSE Undefined
    IN IF Truthy(params) THEN ToQueryString(params) ELSE NoQuery

\* the start button of Step2EnvSetup: handleStartSimulation(), the
\* next-step handler of SimulationView and its router.push
HandleStartSimulation ==
    /\ IsRounds
    /\ RoundsFrame
    /\ route = "Simulation"
    /\ startCount < MaxStarts
    /\ chosen' = [custom |-> useCustomRounds, value |-> customMaxRounds]
    /\ routeQuery' = QueryOf(useCustomRounds, customMaxRounds)
    /\ route' = "pushed"
    /\ UNCHANGED <<useCustomRounds, customMaxRounds, maxRounds, startParams,
                   startCount>>

\* the setup of SimulationRunView reads the query, Step3Simulation is
\* mounted with the prop and doStartSimulation() sends the start request;
\* also a reload of the page, which runs the same code for the same URL
EnterRunView ==
    /\ IsRounds
    /\ RoundsFrame
    /\ route \in {"pushed", "SimulationRun"}
    /\ route = "SimulationRun" => startCount < MaxStarts
    /\ route' = "SimulationRun"
    /\ LET prop == IF routeQuery # NoQuery THEN parseInt(routeQuery)
                   ELSE Undefined
       IN /\ maxRounds' = prop
          /\ startParams' = [sent |-> TRUE,
                             max_rounds |-> IF Truthy(prop) THEN prop
                                            ELSE Undefined]
    /\ startCount' = startCount + 1
    /\ UNCHANGED <<useCustomRounds, customMaxRounds, routeQuery, chosen>>

\* handleGoBack of SimulationRunView: router.push to the Simulation route,
\* whose Step2EnvSetup is created anew
GoBackToSetup ==
    /\ IsRounds
    /\ RoundsFrame
    /\ route = "SimulationRun"
    /\ route' = "Simulation"
    /\ routeQuery' = NoQuery
    /\ useCustomRounds' = FALSE
    /\ customMaxRounds' = DefaultRounds
    /\ UNCHANGED <<maxRounds, startParams, chosen, startCount>>

(***************************************************************************)
(* Environment shutdown: handleGoBack of SimulationRunView and the         *)
(* mount-time check of SimulationView                                      *)
(***************************************************************************)
IsBack == view = "back"
IsSetup == view = "setup"

BackFrame ==
    UNCHANGED <<hasSimId, runVars, logVars, envVars, procVars, pureVars>>

\* const isSimulating = computed(() => currentStatus.value === 'processing')
isSimulating == currentStatus = "processing"

\* startGraphRefresh(): `if (graphRefreshTimer) return`, else
\* graphRefreshTimer = setInterval(refreshGraph, 30000)
startGraphRefresh ==
    IF graphRefreshTimer # Null
    THEN UNCHANGED refreshVars
    ELSE /\ graphRefreshTimer' = NewTimer(activeGraphRefresh)
         /\ activeGraphRefresh' =
                activeGraphRefresh \cup {NewTimer(activeGraphRefresh)}

stopGraphRefresh_KeepsInterval ==
    /\ graphRefreshTimer' = Null
    /\ UNCHANGED activeGraphRefresh

\* stopGraphRefresh(): clearInterval(graphRefreshTimer) and
\* graphRefreshTimer = null, when a timer is held
stopGraphRefresh ==
    /\ graphRefreshTimer' = Null
    /\ activeGraphRefresh' = activeGraphRefresh \ {graphRefreshTimer}

\* watch(isSimulating, ...): the callback runs when the computed value has
\* changed, here from `before` to `after`
watchIsSimulating(before, after) ==
    IF before = after THEN UNCHANGED refreshVars
    ELSE IF after THEN startGraphRefresh
    ELSE stopGraphRefresh

\* the update-status events the step component on screen can emit.
\* Step3Simulation emits 'processing' from doStartSimulation only, which runs
\* once, in its onMounted (before the onMounted of the view around it, while
\* the status still holds its initial 'processing'); afterwards it emits
\* 'error' and 'completed'.  Step2EnvSetup emits all three.
Emitted == IF IsBack THEN {"completed", "error"}
           ELSE {"processing", "completed", "error"}

\* what a resolved or rejected request looks like to its caller.  The response
\* interceptor rejects a body whose success field is falsy unless the field
\* is missing, so a caller sees a body with success true ("success"), a body
\* without the field ("no_flag"), or an exception ("threw": a rejected body,
\* a network error or a timeout).
Responses == {"success", "no_flag", "threw"}

\* res.success, for a response the caller received
Success(res) == res = "success"

\* the sequence is over: handleGoBack reaches router.push, which leaves the
\* view; onMounted reaches loadSimulationData()
Finish ==
    /\ pc' = "done"
    /\ proceeded' = TRUE
    /\ mounted' = IF IsBack THEN FALSE ELSE mounted
    /\ IF IsBack THEN stopGraphRefresh ELSE UNCHANGED refreshVars

\* stopSimulation({ simulation_id }) is requested
RequestStop ==
    /\ stopCalls' = stopCalls + 1
    /\ pc' = "stopSimulation"
    /\ UNCHANGED <<proceeded, mounted, refreshVars>>

\* onMounted of SimulationRunView
OnMountedRunView ==
    /\ IsBack
    /\ BackFrame
    /\ ~mounted /\ pc = "idle"
    /\ mounted' = TRUE
    /\ last' = Op("onMounted")
    /\ UNCHANGED <<view, currentStatus, backVars>>

\* updateStatus(status), on update-status of the step component, which is
\* on screen and at work all through the shutdown sequence
UpdateStatus(status) ==
    /\ IsBack \/ IsSetup
    /\ BackFrame
    /\ mounted /\ status # currentStatus
    /\ status \in Emitted
    /\ currentStatus' = status
    /\ IF IsBack
       THEN watchIsSimulating(isSimulating, status = "processing")
       ELSE UNCHANGED refreshVars
    /\ last' = Op("updateStatus")
    /\ UNCHANGED <<view, mounted, pc, closeEnvCalls, stopCalls, envAlive,
                   closeResult, running, proceeded>>

\* a tick of the interval: refreshGraph()
GraphRefreshTick(t) ==
    /\ IsBack
    /\ BackFrame
    /\ t \in activeGraphRefresh
    /\ last' = Op("refreshGraph")
    /\ UNCHANGED <<view, mounted, currentStatus, backVars>>

\* handleGoBack() up to `await getEnvStatus(...)`
HandleGoBack ==
    /\ IsBack
    /\ BackFrame
    /\ mounted /\ pc = "idle"
    /\ stopGraphRefresh
    /\ pc' = "getEnvStatus"
    /\ last' = Op("handleGoBack")
    /\ UNCHANGED <<view, mounted, currentStatus, closeEnvCalls, stopCalls,
                   envAlive, closeResult, running, proceeded>>

\* onMounted of SimulationView: checkAndStopRunningSimulation() up to
\* `await getEnvStatus(...)`; without a simulation id it returns at once and
\* loadSimulationData() runs
OnMountedSetup ==
    /\ IsSetup
    /\ BackFrame
    /\ ~mounted /\ pc = "idle"
    /\ last' = Op("onMounted")
    /\ IF hasSimId
       THEN /\ pc' = "getEnvStatus"
            /\ mounted' = TRUE
            /\ UNCHANGED proceeded
       ELSE /\ pc' = "done"
            /\ mounted' = TRUE
            /\ proceeded' = TRUE
    /\ UNCHANGED <<view, currentStatus, closeEnvCalls, stopCalls, envAlive,
                   closeResult, running, refreshVars>>

EnvStatus_FailureStops(res, alive) ==
    /\ IsBack \/ IsSetup
    /\ BackFrame
    /\ pc = "getEnvStatus"
    /\ last' = [Op("getEnvStatus") EXCEPT
                   !.outcome = IF res = "threw" THEN RequestFailed ELSE ""]
    /\ IF res = "threw"
       THEN /\ envAlive' = "failed"
            /\ RequestStop
            /\ UNCHANGED <<closeEnvCalls, running>>
       ELSE IF Success(res) /\ alive
       THEN /\ envAlive' = "alive"
            /\ closeEnvCalls' = closeEnvCalls + 1
            /\ pc' = "closeSimulationEnv"
            /\ UNCHANGED <<stopCalls, running, proceeded, mounted, refreshVars>>
       ELSE /\ envAlive' = "not_alive"
            /\ UNCHANGED closeEnvCalls
            /\ IF IsSetup
               THEN /\ pc' = "getSimulation"
                    /\ UNCHANGED <<stopCalls, running, proceeded, mounted, refreshVars>>
               ELSE /\ running' = isSimulating
                    /\ IF isSimulating
                       THEN RequestStop
                       ELSE Finish /\ UNCHANGED stopCalls
    /\ UNCHANGED <<view, currentStatus, closeResult>>

\* after `await getEnvStatus(...)`; alive = envStatusRes.success &&
\* envStatusRes.data?.env_alive
EnvStatus(res, alive) ==
    /\ IsBack \/ IsSetup
    /\ BackFrame
    /\ pc = "getEnvStatus"
    /\ last' = [Op("getEnvStatus") EXCEPT
                   !.outcome = IF res = "threw" THEN RequestFailed ELSE ""]
    /\ IF res = "threw"
       THEN /\ envAlive' = "failed"            \* the outer catch
            /\ Finish
            /\ UNCHANGED <<closeEnvCalls, stopCalls, running>>
       ELSE IF Success(res) /\ alive
       THEN /\ envAlive' = "alive"
            /\ closeEnvCalls' = closeEnvCalls + 1
            /\ pc' = "closeSimulationEnv"
            /\ UNCHANGED <<stopCalls, running, proceeded, mounted, refreshVars>>
       ELSE /\ envAlive' = "not_alive"
            /\ UNCHANGED closeEnvCalls
            /\ IF IsSetup
               THEN /\ pc' = "getSimulation"
                    /\ UNCHANGED <<stopCalls, running, proceeded, mounted, refreshVars>>
               ELSE /\ running' = isSimulating
                    /\ IF isSimulating
                       THEN RequestStop
                       ELSE Finish /\ UNCHANGED stopCalls
    /\ UNCHANGED <<view, currentStatus, closeResult>>

\* after `await closeSimulationEnv({ simulation_id, timeout: 10 })`
CloseSimulationEnv(res) ==
    /\ IsBack \/ IsSetup
    /\ BackFrame
    /\ pc = "closeSimulationEnv"
    /\ closeResult' = res
    /\ last' = Op("closeSimulationEnv")
    /\ IF IsBack
       THEN IF res = "threw"
            THEN RequestStop                    \* catch (closeErr)
            ELSE Finish /\ UNCHANGED stopCalls
       ELSE IF Success(res)
            THEN Finish /\ UNCHANGED stopCalls
            ELSE RequestStop                    \* forceStopSimulation()
    /\ UNCHANGED <<view, currentStatus, closeEnvCalls, envAlive, running>>

GetSimulation_AlwaysStops(res, isRunning) ==
    /\ IsSetup
    /\ BackFrame
    /\ pc = "getSimulation"
    /\ last' = [Op("getSimulation") EXCEPT
                   !.outcome = IF res = "threw" THEN RequestFailed ELSE ""]
    /\ running' = (Success(res) /\ isRunning)
    /\ IF Success(res)
       THEN RequestStop
       ELSE Finish /\ UNCHANGED stopCalls
    /\ UNCHANGED <<view, currentStatus, closeEnvCalls, envAlive, closeResult>>

\* checkAndStopRunningSimulation() after `await getSimulation(...)`;
\* isRunning = simRes.data?.status === 'running'
GetSimulation(res, isRunning) ==
    /\ IsSetup
    /\ BackFrame
    /\ pc = "getSimulation"
    /\ last' = [Op("getSimulation") EXCEPT
                   !.outcome = IF res = "threw" THEN RequestFailed ELSE ""]
    /\ running' = (Success(res) /\ isRunning)
    /\ IF Success(res) /\ isRunning
       THEN RequestStop
       ELSE Finish /\ UNCHANGED stopCalls
    /\ UNCHANGED <<view, currentStatus, closeEnvCalls, envAlive, closeResult>>

\* after `await stopSimulation(...)`: the outcome is logged, nothing else
StopSimulation(res) ==
    /\ IsBack \/ IsSetup
    /\ BackFrame
    /\ pc = "stopSimulation"
    /\ Finish
    /\ last' = [Op("stopSimulation") EXCEPT
                   !.outcome = IF Success(res) THEN "" ELSE "failed"]
    /\ UNCHANGED <<view, currentStatus, closeEnvCalls, stopCalls, envAlive,
                   closeResult, running>>

(***************************************************************************)
(* api/simulation.js and requestWithRetry of api/index.js                  *)
(***************************************************************************)
IsApi == view \in {"api", "retry"}

ApiFrame ==
    UNCHANGED <<view, mounted, hasSimId, currentStatus, runVars, logVars,
                envVars, procVars, backVars, graphVars, roundsVars>>

\* the mutating calls of api/simulation.js
MutatingCalls ==
    {"createSimulation", "prepareSimulation", "startSimulation",
     "stopSimulation", "interviewAgents"}

\* the calls written as requestWithRetry(() => service.post(...), 3, 1000);
\* stopSimulation is a plain service.post(...)
UsesRetry(call) ==
    call \in {"createSimulation", "prepareSimulation", "startSimulation",
              "interviewAgents"}

RetryAttempts == 3
RetryDelay == 1000

\* why an attempt failed: no response, or a body the interceptor rejected
ErrorKinds == {"network", "rejected"}

\* a call is made: the first request goes out
Call(call) ==
    /\ IsApi
    /\ ApiFrame
    /\ rpc = "idle"
    /\ api' = call
    /\ maxRetries' = IF UsesRetry(call) THEN RetryAttempts ELSE 1
    /\ delay' = IF UsesRetry(call) THEN RetryDelay ELSE 0
    /\ loopIndex' = 0
    /\ attempts' = 1
    /\ rpc' = "request"
    /\ last' = Op("call")
    /\ UNCHANGED <<waited, errors, thrown, returned>>

MaxTries == 4                   \* largest maxRetries a caller passes
Delays == {1, 1000}             \* the delays a caller passes, in ms
Bodies == {"body_a", "body_b"}  \* what a successful request resolves to

\* requestWithRetry(requestFn, n, d) up to its first await: with n >= 1 the
\* first request goes out, with n = 0 the loop is skipped and the function
\* returns undefined
requestWithRetry(n, d) ==
    /\ IsApi
    /\ ApiFrame
    /\ view = "retry" /\ rpc = "idle"
    /\ api' = "requestWithRetry"
    /\ maxRetries' = n
    /\ delay' = d
    /\ loopIndex' = 0
    /\ attempts' = IF n >= 1 THEN 1 ELSE 0
    /\ rpc' = IF n >= 1 THEN "request" ELSE "returned"
    /\ returned' = IF n >= 1 THEN returned ELSE "undefined"
    /\ last' = Op("requestWithRetry")
    /\ UNCHANGED <<waited, errors, thrown>>

\* `return await requestFn()`: the request succeeded with the body `res`
AttemptSucceeded(res) ==
    /\ IsApi
    /\ ApiFrame
    /\ rpc = "request"
    /\ rpc' = "returned"
    /\ returned' = res
    /\ last' = [Op("attemptSucceeded") EXCEPT !.outcome = res]
    /\ UNCHANGED <<api, maxRetries, delay, loopIndex, attempts, waited, errors,
                   thrown>>

\* variant whose backoff grows linearly
AttemptFailed_Linear(err) ==
    /\ IsApi
    /\ ApiFrame
    /\ rpc = "request"
    /\ errors' = Append(errors, err)
    /\ IF loopIndex = maxRetries - 1
       THEN /\ thrown' = err
            /\ rpc' = "thrown"
            /\ UNCHANGED waited
       ELSE /\ waited' = Append(waited, delay * (loopIndex + 1))
            /\ rpc' = "sleep"
            /\ UNCHANGED thrown
    /\ last' = [Op("attemptFailed") EXCEPT !.outcome = "failed"]
    /\ UNCHANGED <<api, maxRetries, delay, loopIndex, attempts, returned>>

\* the catch of requestWithRetry: rethrow on the last round, else sleep
\* delay * Math.pow(2, i); a plain call rejects at once
AttemptFailed(err) ==
    /\ IsApi
    /\ ApiFrame
    /\ rpc = "request"
    /\ errors' = Append(errors, err)
    /\ IF loopIndex = maxRetries - 1
       THEN /\ thrown' = err
            /\ rpc' = "thrown"
            /\ UNCHANGED waited
       ELSE /\ waited' = Append(waited, delay * 2 ^ loopIndex)
            /\ rpc' = "sleep"
            /\ UNCHANGED thrown
    /\ last' = [Op("attemptFailed") EXCEPT !.outcome = "failed"]
    /\ UNCHANGED <<api, maxRetries, delay, loopIndex, attempts, returned>>

\* the timeout of the sleep fires: i++, and the next request goes out
NextAttempt ==
    /\ IsApi
    /\ ApiFrame
    /\ rpc = "sleep"
    /\ loopIndex' = loopIndex + 1
    /\ attempts' = attempts + 1
    /\ rpc' = "request"
    /\ last' = Op("nextAttempt")
    /\ UNCHANGED <<api, maxRetries, delay, waited, errors, thrown, returned>>

(***************************************************************************)
(* Graph panel: the edges renderGraph draws                                *)
(***************************************************************************)
IsGraph == view \in {"graph", "panel"}
IsPanel == view = "panel"

GraphFrame ==
    UNCHANGED <<view, mounted, hasSimId, currentStatus, runVars, logVars,
                envVars, procVars, backVars, apiVars, roundsVars>>

\* the uuids of nodesData, and the uuids an edge record may name: the last
\* one belongs to no node of the snapshot
nodeIds == {1, 2}
EdgeEnds == {1, 2, 3}

\* the endpoints of one edge record
EdgeEndpoints == [source_node_uuid : EdgeEnds, target_node_uuid : EdgeEnds]

\* sequences of at most n elements of S
SeqUpTo(S, n) == UNION {[1..m -> S] : m \in 0..n}

\* an edge record of the snapshot: the server gives every record its own
\* uuid, here its position in the snapshot
EdgeRecord(ends, position) ==
    [uuid |-> position, source_node_uuid |-> ends.source_node_uuid,
     target_node_uuid |-> ends.target_node_uuid]

\* the snapshots of at most n edge records
EdgeSnapshots(n) ==
    {[j \in 1..Len(ends) |-> EdgeRecord(ends[j], j)] :
        ends \in SeqUpTo(EdgeEndpoints, n)}

\* the snapshots none of whose records is dropped by the filter
ValidSnapshots(n) ==
    {data \in EdgeSnapshots(n) :
        \A j \in 1..Len(data) : /\ data[j].source_node_uuid \in nodeIds
                                /\ data[j].target_node_uuid \in nodeIds}

tempEdges_SourceOnly(data) ==
    SelectSeq(data, LAMBDA e : e.source_node_uuid \in nodeIds)

\* edgesData.filter(e => nodeIds.has(source) && nodeIds.has(target))
tempEdges(data) ==
    SelectSeq(data, LAMBDA e : /\ e.source_node_uuid \in nodeIds
                               /\ e.target_node_uuid \in nodeIds)

isSelfLoop(e) == e.source_node_uuid = e.target_node_uuid

\* [source, target].sort().join('_')
pairKey(e) ==
    IF e.source_node_uuid < e.target_node_uuid
    THEN <<e.source_node_uuid, e.target_node_uuid>>
    ELSE <<e.target_node_uuid, e.source_node_uuid>>

\* edgePairCount[pairKey] after the first pass
edgePairCount(temp, key) ==
    Cardinality({j \in 1..Len(temp) :
                    ~isSelfLoop(temp[j]) /\ pairKey(temp[j]) = key})

\* edgePairIndex[pairKey] || 0 when the second pass reaches temp[j]
currentIndex(temp, j) ==
    Cardinality({m \in 1..(j - 1) :
                    ~isSelfLoop(temp[m]) /\ pairKey(temp[m]) = pairKey(temp[j])})

\* selfLoopEdges[node] after the first pass
selfLoopEdges(temp, node) ==
    SelectSeq(temp, LAMBDA e : isSelfLoop(e) /\ e.source_node_uuid = node)

\* Math.min(1.2, 0.6 + totalCount * 0.15), in hundredths
curvatureRange(totalCount) ==
    IF 60 + totalCount * 15 < 120 THEN 60 + totalCount * 15 ELSE 120

curvature_Flat(index, totalCount, isReversed) ==
    IF totalCount > 1
    THEN [num |-> IF isReversed THEN 0 - curvatureRange(totalCount)
                  ELSE curvatureRange(totalCount),
          den |-> 100 * (totalCount - 1)]
    ELSE [num |-> 0, den |-> 1]

\* ((currentIndex / (totalCount - 1)) - 0.5) * curvatureRange * 2, negated
\* for a reversed record, as the exact fraction num / den:
\* (2 * index - (totalCount - 1)) * range / (100 * (totalCount - 1))
curvature(index, totalCount, isReversed) ==
    IF totalCount > 1
    THEN LET c == (2 * index - (totalCount - 1)) * curvatureRange(totalCount)
         IN [num |-> IF isReversed THEN 0 - c ELSE c,
             den |-> 100 * (totalCount - 1)]
    ELSE [num |-> 0, den |-> 1]

RenderedEdge_Single(temp, j) ==
    LET e == temp[j]
    IN IF isSelfLoop(e)
       THEN [source |-> e.source_node_uuid, target |-> e.target_node_uuid,
             curvature |-> [num |-> 0, den |-> 1], isSelfLoop |-> TRUE,
             pairIndex |-> 0, pairTotal |-> 0,
             rawData |-> [isSelfLoopGroup |-> TRUE, uuid |-> 0,
                          selfLoopCount |-> 1, selfLoopEdges |-> <<e>>]]
       ELSE [source |-> e.source_node_uuid, target |-> e.target_node_uuid,
             curvature |-> curvature(currentIndex(temp, j),
                                     edgePairCount(temp, pairKey(e)),
                                     e.source_node_uuid > e.target_node_uuid),
             isSelfLoop |-> FALSE,
             pairIndex |-> currentIndex(temp, j),
             pairTotal |-> edgePairCount(temp, pairKey(e)),
             rawData |-> [isSelfLoopGroup |-> FALSE, uuid |-> e.uuid,
                          selfLoopCount |-> 0, selfLoopEdges |-> << >>]]

\* the edge the second pass pushes for temp[j]; a self-loop record after the
\* first of its node pushes nothing
RenderedEdge(temp, j) ==
    LET e == temp[j]
    IN IF isSelfLoop(e)
       THEN LET allSelfLoops == selfLoopEdges(temp, e.source_node_uuid)
            IN [source |-> e.source_node_uuid, target |-> e.target_node_uuid,
                curvature |-> [num |-> 0, den |-> 1], isSelfLoop |-> TRUE,
                pairIndex |-> 0, pairTotal |-> 0,
                rawData |-> [isSelfLoopGroup |-> TRUE, uuid |-> 0,
                             selfLoopCount |-> Len(allSelfLoops),
                             selfLoopEdges |-> allSelfLoops]]
       ELSE [source |-> e.source_node_uuid, target |-> e.target_node_uuid,
             curvature |-> curvature(currentIndex(temp, j),
                                     edgePairCount(temp, pairKey(e)),
                                     e.source_node_uuid > e.target_node_uuid),
             isSelfLoop |-> FALSE,
             pairIndex |-> currentIndex(temp, j),
             pairTotal |-> edgePairCount(temp, pairKey(e)),
             rawData |-> [isSelfLoopGroup |-> FALSE, uuid |-> e.uuid,
                          selfLoopCount |-> 0, selfLoopEdges |-> << >>]]

RECURSIVE RenderFrom(_, _)
\* the second pass over tempEdges, from record j on; processedSelfLoopNodes
\* holds the nodes of the self-loop records before j
RenderFrom(temp, j) ==
    IF j > Len(temp) THEN << >>
    ELSE IF isSelfLoop(temp[j])
            /\ \E m \in 1..(j - 1) :
                    /\ isSelfLoop(temp[m])
                    /\ temp[m].source_node_uuid = temp[j].source_node_uuid
    THEN RenderFrom(temp, j + 1)
    ELSE <<RenderedEdge(temp, j)>> \o RenderFrom(temp, j + 1)

\* variant that measures every offset along the normal of the canonical
\* direction, whatever the direction of the record
linkOffset_SameFrame(d) == d.curvature

\* getLinkPath: the offset of the control point of a curved edge from the
\* middle of the segment, in units of baseOffset (equal for the edges of a
\* pair) along the normal of the canonical direction.  The code takes the
\* normal (-dy, dx) of target - source, which for a record whose source id
\* is the greater one is the opposite of the canonical normal.
linkOffset(d) ==
    IF d.source > d.target
    THEN [num |-> 0 - d.curvature.num, den |-> d.curvature.den]
    ELSE d.curvature

NoItem == [type |-> "none", data |-> [uuid |-> 0]]   \* selectedItem = null
NoClick == [on |-> "none", target |-> 0]

\* the stroke and fill attributes of freshly appended elements: node circles,
\* link paths, label backgrounds and label texts, the last three one per
\* rendered edge
PlainStyles(es) ==
    [node |-> [n \in nodeIds |-> "plain"],
     link |-> [m \in 1..Len(es) |-> "plain"],
     labelBg |-> [m \in 1..Len(es) |-> "plain"],
     label |-> [m \in 1..Len(es) |-> "plain"]]

\* .attr(...) on a whole selection but one element
Only(selection, m, value) ==
    [x \in DOMAIN selection |-> IF x = m THEN value ELSE "plain"]

\* renderGraph(): svg.selectAll('*').remove(), then the edge list and new
\* elements for it; run by the graphData watcher and by handleResize
renderGraph ==
    /\ IsGraph
    /\ GraphFrame
    /\ edges' = RenderFrom(tempEdges(edgesData), 1)
    /\ styles' = PlainStyles(edges')
    /\ rendered' = TRUE
    /\ last' = Op("renderGraph")
    /\ UNCHANGED <<edgesData, selectedItem, expandedSelfLoops, click>>

\* click on the path of edges[m]
ClickLink(m) ==
    /\ IsPanel
    /\ GraphFrame
    /\ rendered
    /\ m \in 1..Len(edges)
    /\ styles' = [styles EXCEPT !.link = Only(@, m, "edge"),
                                !.labelBg = Only(@, 0, "plain"),
                                !.label = Only(@, 0, "plain")]
    /\ selectedItem' = [type |-> "edge", data |-> edges[m].rawData]
    /\ click' = [on |-> "link", target |-> m]
    /\ last' = Op("clickLink")
    /\ UNCHANGED <<edgesData, edges, rendered, expandedSelfLoops>>

\* click on the label background of edges[m]
ClickLabelBg(m) ==
    /\ IsPanel
    /\ GraphFrame
    /\ rendered
    /\ m \in 1..Len(edges)
    /\ styles' = [styles EXCEPT !.link = Only(@, m, "edge"),
                                !.labelBg = Only(@, m, "selected"),
                                !.label = Only(@, 0, "plain")]
    /\ selectedItem' = [type |-> "edge", data |-> edges[m].rawData]
    /\ click' = [on |-> "labelBg", target |-> m]
    /\ last' = Op("clickLabelBg")
    /\ UNCHANGED <<edgesData, edges, rendered, expandedSelfLoops>>

\* click on the label text of edges[m]
ClickLabel(m) ==
    /\ IsPanel
    /\ GraphFrame
    /\ rendered
    /\ m \in 1..Len(edges)
    /\ styles' = [styles EXCEPT !.link = Only(@, m, "edge"),
                                !.labelBg = Only(@, 0, "plain"),
                                !.label = Only(@, m, "selected")]
    /\ selectedItem' = [type |-> "edge", data |-> edges[m].rawData]
    /\ click' = [on |-> "label", target |-> m]
    /\ last' = Op("clickLabel")
    /\ UNCHANGED <<edgesData, edges, rendered, expandedSelfLoops>>

ClickNode_DeselectFirst(n) ==
    /\ IsPanel
    /\ GraphFrame
    /\ rendered
    /\ n \in nodeIds
    /\ styles' = [styles EXCEPT
                    !.node = Only(@, n, "selected"),
                    !.link = [m \in DOMAIN @ |->
                                IF edges[m].source = n \/ edges[m].target = n
                                THEN "node" ELSE "plain"]]
    /\ selectedItem' = IF selectedItem.type = "none"
                       THEN [type |-> "node", data |-> [uuid |-> n]]
                       ELSE NoItem
    /\ click' = [on |-> "node", target |-> n]
    /\ last' = Op("clickNode")
    /\ UNCHANGED <<edgesData, edges, rendered, expandedSelfLoops>>

\* click on the circle of node n
ClickNode(n) ==
    /\ IsPanel
    /\ GraphFrame
    /\ rendered
    /\ n \in nodeIds
    /\ styles' = [styles EXCEPT
                    !.node = Only(@, n, "selected"),
                    !.link = [m \in DOMAIN @ |->
                                IF edges[m].source = n \/ edges[m].target = n
                                THEN "node" ELSE "plain"]]
    /\ selectedItem' = [type |-> "node", data |-> [uuid |-> n]]
    /\ click' = [on |-> "node", target |-> n]
    /\ last' = Op("clickNode")
    /\ UNCHANGED <<edgesData, edges, rendered, expandedSelfLoops>>

\* click on the empty canvas
ClickSvg ==
    /\ IsPanel
    /\ GraphFrame
    /\ rendered
    /\ selectedItem' = NoItem
    /\ styles' = PlainStyles(edges)
    /\ click' = [on |-> "svg", target |-> 0]
    /\ last' = Op("clickSvg")
    /\ UNCHANGED <<edgesData, edges, rendered, expandedSelfLoops>>

\* the detail panel is shown for a selected item; its close button
closeDetailPanel ==
    /\ IsPanel
    /\ GraphFrame
    /\ selectedItem.type # "none"
    /\ selectedItem' = NoItem
    /\ expandedSelfLoops' = {}
    /\ last' = Op("closeDetailPanel")
    /\ UNCHANGED <<edgesData, edges, rendered, styles, click>>

\* the ids of the items the self-loop list of the panel shows: loop.uuid of
\* each record of selectedItem.data.selfLoopEdges
SelfLoopItems ==
    IF selectedItem.type = "edge" /\ selectedItem.data.isSelfLoopGroup
    THEN {selectedItem.data.selfLoopEdges[j].uuid :
            j \in 1..Len(selectedItem.data.selfLoopEdges)}
    ELSE {}

\* newSet of toggleSelfLoop: a copy of the set with id deleted if it was a
\* member and added if it was not
Toggled(set, id) == IF id \in set THEN set \ {id} ELSE set \cup {id}

toggleSelfLoop_Accordion(id) ==
    /\ IsPanel
    /\ GraphFrame
    /\ id \in SelfLoopItems
    /\ expandedSelfLoops' = IF id \in expandedSelfLoops THEN {} ELSE {id}
    /\ click' = [on |-> "selfLoopItem", target |-> id]
    /\ last' = Op("toggleSelfLoop")
    /\ UNCHANGED <<edgesData, edges, rendered, selectedItem, styles>>

\* toggleSelfLoop(id), from a click on the header of a self-loop item
toggleSelfLoop(id) ==
    /\ IsPanel
    /\ GraphFrame
    /\ id \in SelfLoopItems
    /\ expandedSelfLoops' = Toggled(expandedSelfLoops, id)
    /\ click' = [on |-> "selfLoopItem", target |-> id]
    /\ last' = Op("toggleSelfLoop")
    /\ UNCHANGED <<edgesData, edges, rendered, selectedItem, styles>>

(***************************************************************************)
(* Diagnostic log of the parent views                                      *)
(***************************************************************************)
LogCapEnv == 100                \* SimulationView.addLog
LogCapRun == 200                \* SimulationRunView.addLog
MaxOverflow == 5                \* addLog calls beyond the capacity

\* variant of addLog that drops the newest entry on overflow
AddLog_Pop(log, cap, entry) ==
    LET pushed == Append(log, entry)
    IN IF Len(pushed) > cap THEN SubSeq(pushed, 1, Len(pushed) - 1) ELSE pushed

\* addLog(msg): systemLogs.push({time, msg}); if (length > cap) shift()
AddLog(log, cap, entry) ==
    LET pushed == Append(log, entry)
    IN IF Len(pushed) > cap THEN Tail(pushed) ELSE pushed

\* one addLog call of the view; messages are numbered in emission order so
\* that every entry is told apart from every other
AddLogCall ==
    /\ view = "log"
    /\ pushCount < logCap + MaxOverflow
    /\ pushCount' = pushCount + 1
    /\ systemLogs' = AddLog(systemLogs, logCap,
                            [time |-> pushCount + 1, msg |-> pushCount + 1])
    /\ last' = Op("addLog")
    /\ UNCHANGED <<view, mounted, hasSimId, currentStatus, logCap, runVars,
                   envVars, procVars, backVars, pureVars>>

InitLogVars ==
    /\ systemLogs = << >>
    /\ logCap \in IF view = "log" THEN {LogCapEnv, LogCapRun}
                  ELSE IF IsRun \/ view = "back" THEN {LogCapRun}
                  ELSE {LogCapEnv}
    /\ pushCount = 0

InitBackVars ==
    /\ pc = "idle"
    /\ closeEnvCalls = 0
    /\ stopCalls = 0
    /\ envAlive = "unknown"
    /\ closeResult = "none"
    /\ running = FALSE
    /\ proceeded = FALSE
    \* SimulationRunView, after setup: the watcher on isSimulating is
    \* {immediate: true} and the status starts as 'processing'
    /\ graphRefreshTimer = IF IsBack THEN 1 ELSE Null
    /\ activeGraphRefresh = IF IsBack THEN {1} ELSE {}

InitApiVars ==
    /\ api = "none"
    /\ maxRetries = 0
    /\ delay = 0
    /\ loopIndex = 0
    /\ rpc = "idle"
    /\ attempts = 0
    /\ waited = << >>
    /\ errors = << >>
    /\ thrown = "none"
    /\ returned = "none"

InitGraphVars ==
    /\ edgesData \in IF IsPanel THEN ValidSnapshots(MaxEdges)
                      ELSE IF IsGraph THEN EdgeSnapshots(MaxEdges)
                      ELSE {<< >>}
    /\ edges = << >>
    /\ rendered = FALSE
    /\ selectedItem = NoItem
    /\ styles = PlainStyles(<< >>)
    /\ expandedSelfLoops = {}
    /\ click = NoClick

InitRoundsVars ==
    /\ useCustomRounds = FALSE
    /\ customMaxRounds = DefaultRounds
    /\ route = "Simulation"
    /\ routeQuery = NoQuery
    /\ maxRounds = Undefined
    /\ startParams = NoStart
    /\ chosen = NoChoice
    /\ startCount = 0

InitProcessVars ==
    /\ routeNew \in IF IsProcess THEN BOOLEAN ELSE {FALSE}
    /\ pendingUpload \in IF view = "process" THEN BOOLEAN
                        ELSE IF view = "snapshots" THEN {TRUE} ELSE {FALSE}
    /\ currentPhase = -1
    /\ error = ""
    /\ loading = TRUE
    /\ graphLoading = FALSE
    /\ projectData = NoProject
    /\ graphData = NoGraph
    /\ buildProgress = NoProgress
    /\ ontologyProgress = FALSE
    /\ taskPollTimer = Null
    /\ graphPollTimer = Null
    /\ activeTaskPoll = {}
    /\ activeGraphPoll = {}
    /\ ontologyReqs = 0
    /\ loadProjectReqs = 0
    /\ buildReqs = 0
    /\ taskReqs = 0
    /\ graphProjectReqs = [poll |-> 0, refresh |-> 0]
    /\ graphDataReqs = [poll |-> 0, refresh |-> 0]
    /\ finalProjectReqs = 0
    /\ finalGraphReqs = 0
    /\ loadGraphReqs = 0

InitEnvVars ==
    /\ taskId = Null
    /\ currentStage = ""
    /\ profiles = 0
    /\ lastLoggedProfileCount = 0
    /\ lastLoggedMessage = ""
    /\ simulationConfig = FALSE
    /\ pollTimer = Null
    /\ profilesTimer = Null
    /\ configTimer = Null
    /\ activePoll = {}
    /\ activeProfiles = {}
    /\ activeConfig = {}
    /\ prepareReqs = 0
    /\ prepStatusReqs = 0
    /\ profilesReqs = 0
    /\ configReqs = 0
    /\ loadProfilesReqs = 0
    /\ loadConfigReqs = 0

(***************************************************************************)
(* Specifications                                                          *)
(***************************************************************************)
InitRunVars ==
    /\ phase = 0
    /\ isStarting = FALSE
    /\ isStopping = FALSE
    /\ startError = ""
    /\ runStatus = EmptyStatus
    /\ allActions = << >>
    /\ actionIds = {}
    /\ prevTwitterRound = 0
    /\ prevRedditRound = 0
    /\ statusTimer = Null
    /\ detailTimer = Null
    /\ activeStatus = {}
    /\ activeDetail = {}
    /\ startReqs = NoReqs
    /\ statusReqs = NoReqs
    /\ detailReqs = NoReqs

\* the state after construction of one of the views `views`
InitViews(views) ==
    /\ view \in views
    /\ mounted = FALSE
    /\ hasSimId \in IF view \in {"run", "detail", "env", "setup"} THEN BOOLEAN
                    ELSE {TRUE}
    /\ currentStatus = "processing"
    /\ last = [op |-> "init", stale |-> FALSE, fired |-> FALSE, added |-> 0,
               outcome |-> "", logs |-> {}, phaseBefore |-> 0,
               line |-> "", polled |-> [detail |-> [key |-> "",
                                                    described |-> FALSE],
                                        message |-> ""],
               snap |-> NoGraph]
    /\ InitRunVars /\ InitLogVars /\ InitEnvVars /\ InitProcessVars
    /\ InitBackVars /\ InitApiVars /\ InitGraphVars /\ InitRoundsVars

InitRun == InitViews({"run"})

NextRun ==
    \/ OnMountedRun
    \/ Restart
    \/ \E age \in Ages : StartSucceeded(age)
    \/ \E age \in Ages : StartFailed(age)
    \/ \E t \in activeStatus : StatusTick(t)
    \/ \E age \in Ages, data \in RunDataOf(view) : FetchRunStatus(age, data)
    \/ \E age \in Ages : FetchRunStatusFailed(age)
    \/ \E t \in activeDetail : DetailTick(t)
    \/ \E age \in Ages, s \in SnapshotsOf(view) : FetchRunStatusDetail(age, s)
    \/ \E age \in Ages : FetchRunStatusDetailFailed(age)
    \/ OnUnmountedRun

SpecRun == InitRun /\ [][NextRun]_vars

InitDetail == InitViews({"detail"})

SpecDetail == InitDetail /\ [][NextRun]_vars

InitLog == InitViews({"log"})

NextLog == AddLogCall

SpecLog == InitLog /\ [][NextLog]_vars

InitEnv == InitViews({"env"})

NextEnv ==
    \/ OnMountedEnv
    \/ PrepareStarted
    \/ PrepareAlreadyPrepared
    \/ PrepareFailed
    \/ \E t \in activePoll : PrepStatusTick(t)
    \/ \E data \in PrepareStatusData : PollPrepareStatus(data)
    \/ PollPrepareStatusFailed
    \/ \E t \in activeProfiles : ProfilesTick(t)
    \/ \E ok \in BOOLEAN : \E count \in IF ok THEN ProfileCounts ELSE {0} :
          FetchProfilesRealtime(ok, count)
    \/ \E t \in activeConfig : ConfigTick(t)
    \/ \E outcome \in {"generated", "pending", "error"} :
          FetchConfigRealtime(outcome)
    \/ \E ok \in BOOLEAN : \E count \in IF ok THEN ProfileCounts ELSE {0} :
          LoadPreparedProfiles(ok, count)
    \/ \E outcome \in {"generated", "pending", "nodata", "error"} :
          LoadPreparedConfig(outcome)
    \/ OnUnmountedEnv

SpecEnv == InitEnv /\ [][NextEnv]_vars

\* the same step when the browser keeps firing the config interval and
\* delivering the responses, and the config endpoint, asked again and again,
\* eventually answers with a generated configuration
FairEnv ==
    /\ WF_vars(\E t \in activeConfig : ConfigTick(t))
    /\ SF_vars(FetchConfigRealtime("generated"))

SpecEnvFair == InitEnv /\ [][NextEnv]_vars /\ FairEnv

\* the prepare-status polls of the step and the progress lines they log
InitEnvLog == InitViews({"envlog"})

NextEnvLog ==
    \/ OnMountedEnv
    \/ PrepareStarted
    \/ \E t \in activePoll : PrepStatusTick(t)
    \/ \E data \in PrepareStatusData : PollPrepareStatus(data)
    \/ PollPrepareStatusFailed
    \/ OnUnmountedEnv

SpecEnvLog == InitEnvLog /\ [][NextEnvLog]_vars

\* the profile requests of the step: those of the interval and the one of
\* loadPreparedData
InitProfiles == InitViews({"profiles"})

NextProfiles ==
    \/ OnMountedEnv
    \/ PrepareStarted
    \/ \E t \in activePoll : PrepStatusTick(t)
    \/ \E data \in PrepareStatusData : PollPrepareStatus(data)
    \/ \E t \in activeProfiles : ProfilesTick(t)
    \/ \E ok \in BOOLEAN : \E count \in IF ok THEN ProfileCounts ELSE {0} :
          FetchProfilesRealtime(ok, count)
    \/ \E ok \in BOOLEAN : \E count \in IF ok THEN ProfileCounts ELSE {0} :
          LoadPreparedProfiles(ok, count)
    \/ OnUnmountedEnv

SpecProfiles == InitProfiles /\ [][NextProfiles]_vars

InitProcess == InitViews({"process"})

NextProcess ==
    \/ OnMountedProcess
    \/ OntologyGenerated
    \/ OntologyFailed
    \/ \E data \in Projects : LoadProject(data)
    \/ LoadProjectFailed
    \/ BuildStarted
    \/ BuildFailed
    \/ \E t \in activeTaskPoll : TaskTick(t)
    \/ \E status \in {"processing", "completed", "failed"} :
          PollTaskStatus(status)
    \/ PollTaskStatusFailed
    \/ \E data \in BuildingProjects : FinalProject(data)
    \/ FinalProjectFailed
    \/ \E caller \in {"final", "load"}, ok \in BOOLEAN :
          \E snap \in IF ok THEN GraphSnapsOf(view) ELSE {NoGraph} :
             LoadGraph(caller, ok, snap)
    \/ \E t \in activeGraphPoll : GraphTick(t)
    \/ RefreshGraph
    \/ \E src \in Sources, ok \in BOOLEAN :
          \E data \in IF ok THEN BuildingProjects ELSE {NoProject} :
             FetchGraphProject(src, ok, data)
    \/ \E src \in Sources, ok \in BOOLEAN :
          \E snap \in IF ok THEN GraphSnapsOf(view) ELSE {NoGraph} :
             FetchGraphData(src, ok, snap)
    \/ OnUnmountedProcess

SpecProcess == InitProcess /\ [][NextProcess]_vars

\* the same step with the graph answers varied
InitSnapshots == InitViews({"snapshots"})

SpecSnapshots == InitSnapshots /\ [][NextProcess]_vars

\* the two views that poll a job until it reports a terminal status
InitTerminal == InitViews({"process", "run"})

NextTerminal == NextProcess \/ NextRun

SpecTerminal == InitTerminal /\ [][NextTerminal]_vars

InitBack == InitViews({"back", "setup"})

NextBack ==
    \/ OnMountedRunView
    \/ \E status \in {"processing", "completed", "error"} : UpdateStatus(status)
    \/ \E t \in activeGraphRefresh : GraphRefreshTick(t)
    \/ HandleGoBack
    \/ OnMountedSetup
    \/ \E res \in Responses, alive \in BOOLEAN : EnvStatus(res, alive)
    \/ \E res \in Responses : CloseSimulationEnv(res)
    \/ \E res \in Responses, isRunning \in BOOLEAN : GetSimulation(res, isRunning)
    \/ \E res \in Responses : StopSimulation(res)

SpecBack == InitBack /\ [][NextBack]_vars

InitGraph == InitViews({"graph"})

NextGraph == renderGraph

SpecGraph == InitGraph /\ [][NextGraph]_vars

\* the graph panel with its click handlers and its detail panel
InitPanel == InitViews({"panel"})

NextPanel ==
    \/ renderGraph
    \/ \E m \in 1..MaxEdges : ClickLink(m) \/ ClickLabelBg(m) \/ ClickLabel(m)
    \/ \E n \in nodeIds : ClickNode(n)
    \/ ClickSvg
    \/ closeDetailPanel
    \/ \E id \in 1..MaxEdges : toggleSelfLoop(id)

SpecPanel == InitPanel /\ [][NextPanel]_vars

\* the entry of each phase: the graph build, the environment setup, and the
\* simulation run entered again after the simulation has completed
InitEntry == InitViews({"process", "env", "reentry"})

NextEntry == NextProcess \/ NextEnv \/ NextRun

SpecEntry == InitEntry /\ [][NextEntry]_vars

InitRounds == InitViews({"rounds"})

NextRounds ==
    \/ ToggleCustomRounds
    \/ \E v \in SliderValues : SetCustomRounds(v)
    \/ HandleStartSimulation
    \/ EnterRunView
    \/ GoBackToSetup

SpecRounds == InitRounds /\ [][NextRounds]_vars

InitApi == InitViews({"api"})

NextApi ==
    \/ \E call \in MutatingCalls : Call(call)
    \/ \E res \in Bodies : AttemptSucceeded(res)
    \/ \E err \in ErrorKinds : AttemptFailed(err)
    \/ NextAttempt

SpecApi == InitApi /\ [][NextApi]_vars

InitRetry == InitViews({"retry"})

NextRetry ==
    \/ \E n \in 0..MaxTries, d \in Delays : requestWithRetry(n, d)
    \/ \E res \in Bodies : AttemptSucceeded(res)
    \/ \E err \in ErrorKinds : AttemptFailed(err)
    \/ NextAttempt

SpecRetry == InitRetry /\ [][NextRetry]_vars

\* the same when every request is answered or times out (the axios instance
\* has a timeout) and the timer of every sleep fires
FairRetry ==
    /\ WF_vars((\E res \in Bodies : AttemptSucceeded(res))
                  \/ (\E err \in ErrorKinds : AttemptFailed(err)))
    /\ WF_vars(NextAttempt)

SpecRetryFair == InitRetry /\ [][NextRetry]_vars /\ FairRetry

\* every view that polls: the simulation run, the environment setup and the
\* graph build
InitPolls == InitViews({"run", "env", "process"})

NextPolls == NextRun \/ NextEnv \/ NextProcess

SpecPolls == InitPolls /\ [][NextPolls]_vars

(***************************************************************************)
(* Properties of the simulation-run step                                   *)
(***************************************************************************)
\* a platform's completion predicate as the specification words it
PlatformDone(completed, current_round, total_rounds) ==
    completed \/ current_round >= total_rounds

FiredCompletion == IsRun /\ last.op = "fetchRunStatus" /\ last.fired

C3_DedupIdempotent ==
    IsRun =>
      \A s \in SnapshotsOf(view) :
        LET once == IngestActions(allActions, actionIds, s)
            twice == IngestActions(once.log, once.ids, s)
        IN /\ twice.log = once.log
           /\ twice.ids = once.ids
           /\ twice.added = 0

\* a non-first response was ingested and appended nothing to a non-empty log
C3_Witness ==
    /\ view = "detail" /\ last.op = "fetchRunStatusDetail"
    /\ last.added = 0 /\ Len(allActions) >= 2

KeysOf(log) == {ActionKey(log[i]) : i \in 1..Len(log)}

\* C4: no two records of allActions share a dedup key and actionIds is
\* exactly the set of dedup keys of the records of allActions.
C4_KeysUnique ==
    IsRun =>
      /\ \A i, j \in 1..Len(allActions) :
            ActionKey(allActions[i]) = ActionKey(allActions[j]) => i = j
      /\ \A i \in 1..Len(allActions) :
            allActions[i].uniqueId = ActionKey(allActions[i])
      /\ actionIds = KeysOf(allActions)

\* records were ingested again after a reset
C4_Witness ==
    /\ view = "detail" /\ last.stale /\ Len(allActions) >= 2
    /\ last.op = "fetchRunStatusDetail" /\ last.added >= 1

\* C5: between two resets allActions only grows at its end: the log before
\* a step is a prefix of the log after it.
C5_AppendOnly ==
    [][(IsRun /\ last'.op \notin DoStartOps)
         => IsPrefix(allActions, allActions')]_vars

\* a response appended new records behind records that were there before
C5_Witness ==
    /\ view = "detail" /\ last.op = "fetchRunStatusDetail"
    /\ last.added >= 1 /\ Len(allActions) > last.added

\* C6: when doStartSimulation has issued the start request, the phase,
\* run status, action log, key set and round watermarks are at their zero
\* values and no run-status or run-detail timer is active.
C6_RestartReset ==
    (IsRun /\ last.op \in DoStartOps) =>
        /\ phase = 0
        /\ runStatus = EmptyStatus
        /\ allActions = << >>
        /\ actionIds = {}
        /\ prevTwitterRound = 0 /\ prevRedditRound = 0
        /\ statusTimer = Null /\ detailTimer = Null
        /\ activeStatus = {} /\ activeDetail = {}
        /\ startReqs.fresh = 1

\* the start request of a restart has just been issued
C6_Witness ==
    /\ IsRun /\ last.op = "doStartSimulation_again"
    /\ startReqs.fresh = 1 /\ statusReqs.stale > 0

C8_NoTimerAfterUnmount ==
    (IsRun /\ ~mounted) => (activeStatus = {} /\ activeDetail = {})

(***************************************************************************)
(* Properties of the diagnostic log                                        *)
(***************************************************************************)
Min(a, b) == IF a < b THEN a ELSE b

\* C9: after any number n of addLog calls the log holds min(n, cap) entries
\* and they are the most recent min(n, cap) messages in emission order.
C9_LogBound ==
    view = "log" =>
      /\ Len(systemLogs) = Min(pushCount, logCap)
      /\ Len(systemLogs) <= logCap
      /\ \A i \in 1..Len(systemLogs) :
            systemLogs[i].msg = pushCount - Len(systemLogs) + i

\* 105 calls with capacity 100 leave the entries 6..105
C9_Witness ==
    /\ view = "log" /\ logCap = 100 /\ pushCount = 105
    /\ Len(systemLogs) = 100
    /\ systemLogs[1].msg = 6 /\ systemLogs[100].msg = 105

(***************************************************************************)
(* Properties of the environment-setup step                                *)
(***************************************************************************)
\* C2: the sub-phase of the environment-setup step never decreases: the
\* phase after any callback is at least the phase before it.
C2_PhaseMonotone == [][IsEnv => phase' >= phase]_vars

(***************************************************************************)
(* Properties of the job pollers                                           *)
(***************************************************************************)
\* the graph-build task reported 'completed' or 'failed'
TaskEnded ==
    IsProcess /\ (currentPhase = 2 \/ error = "Graph building failed")

\* the simulation run was reported completed
RunEnded == IsRun /\ phase = 2

\* C10: when a status response reports a terminal state (build task
\* 'completed' or 'failed', run completed) the recurring timers of that phase
\* are cancelled in the same callback, none is active for as long as that
\* outcome stands, and no timer tick issues another request for that job.
C10_TerminalStopsPoller ==
    /\ [](/\ TaskEnded => (/\ taskPollTimer = Null /\ graphPollTimer = Null
                            /\ activeTaskPoll = {} /\ activeGraphPoll = {})
          /\ RunEnded => (/\ statusTimer = Null /\ detailTimer = Null
                           /\ activeStatus = {} /\ activeDetail = {}))
    /\ [][/\ TaskEnded => last'.op \notin {"taskTick", "graphTick"}
          /\ RunEnded => last'.op \notin {"statusTick", "detailTick"}]_vars

\* the build task reported a terminal status while another status request
\* of the same task was still awaiting its response
C10_Witness ==
    /\ IsProcess /\ last.op = "pollTaskStatus" /\ last.fired
    /\ taskReqs > 0 /\ activeTaskPoll = {} /\ activeGraphPoll = {}

(***************************************************************************)
(* Properties of the failure paths                                         *)
(***************************************************************************)
\* the timers of every poller, and the handles the components keep of them
PollerTimers ==
    <<statusTimer, detailTimer, activeStatus, activeDetail,
      pollTimer, profilesTimer, configTimer, activePoll, activeProfiles,
      activeConfig,
      taskPollTimer, graphPollTimer, activeTaskPoll, activeGraphPoll>>

Pollers ==
    [stopStatusPolling |-> [timer |-> statusTimer, active |-> activeStatus],
     stopDetailPolling |-> [timer |-> detailTimer, active |-> activeDetail],
     stopPolling |-> [timer |-> pollTimer, active |-> activePoll],
     stopProfilesPolling |-> [timer |-> profilesTimer,
                              active |-> activeProfiles],
     stopConfigPolling |-> [timer |-> configTimer, active |-> activeConfig],
     stopTaskPolling |-> [timer |-> taskPollTimer, active |-> activeTaskPoll],
     stopGraphPolling |-> [timer |-> graphPollTimer,
                           active |-> activeGraphPoll]]

\* C12: stopping a poller is idempotent: in whatever state of a view on
\* screen a stop function is called, no timer of its poller is active after
\* the first call, and a further call leaves the state unchanged.
C12_StopIdempotent ==
    mounted =>
        \A f \in DOMAIN Pollers :
            /\ StopTimer(Pollers[f]).active = {}
            /\ StopTimer(StopTimer(Pollers[f])) = StopTimer(Pollers[f])

\* a prepare-status response that reports the task as failed was handled
\* by the step on screen
TaskFailureHandled ==
    IsEnv /\ mounted /\ last.op = "pollPrepareStatus"
          /\ last.outcome = "failed"

\* C13: when the prepare-status poll reports 'failed', every poller of the
\* environment setup (status, profiles and, if started, config) is stopped,
\* the failure is appended to the log and the status indicator is 'error'.
C13_TaskFailureStopsPollers ==
    TaskFailureHandled =>
        /\ activePoll = {} /\ activeProfiles = {} /\ activeConfig = {}
        /\ "prepare_task_failed" \in last.logs
        /\ currentStatus = "error"

\* a job submission (build graph, prepare, start) has just failed
SubmissionFailed ==
    /\ last.op \in {"buildFailed", "prepareFailed", "startFailed"}
    /\ ~last.stale

\* C14: when a job submission fails, the phase equals the phase before the
\* submission was attempted, an error is surfaced and no poller is running.
C14_FailureKeepsPhase ==
    SubmissionFailed =>
        /\ IF IsProcess THEN currentPhase = last.phaseBefore
                        ELSE phase = last.phaseBefore
        /\ IF IsProcess THEN error # ""
                        ELSE mounted => currentStatus = "error"
        /\ mounted => \A f \in DOMAIN Pollers : Pollers[f].active = {}

(***************************************************************************)
(* Properties of the environment shutdown                                  *)
(***************************************************************************)
\* the shutdown sequence has run to its end
ShutdownOver == (IsBack \/ IsSetup) /\ pc = "done"

\* C15: with the environment reported alive, close-env is attempted exactly
\* once; if that call throws or returns non-success exactly one forced stop
\* follows, and if it succeeds no stop is requested -- in handleGoBack and
\* in the mount-time check alike.
C15_ShutdownEscalation ==
    /\ closeEnvCalls <= 1 /\ stopCalls <= 1
    /\ envAlive = "alive" => closeEnvCalls = 1
    /\ (ShutdownOver /\ envAlive = "alive") =>
           stopCalls = IF closeResult = "success" THEN 0 ELSE 1

\* C16: with the environment reported not alive, close-env is never
\* requested and a forced stop is requested if and only if the simulation
\* is reported as running (status 'running' in the mount-time check,
\* isSimulating in handleGoBack); with nothing running the sequence issues
\* no mutating request.
C16_NotAlive ==
    envAlive = "not_alive" =>
        /\ closeEnvCalls = 0
        /\ stopCalls = IF running THEN 1 ELSE 0
        /\ ShutdownOver /\ ~running => closeEnvCalls + stopCalls = 0

\* both branches ran to their end: a stop after a 'running' report, and a
\* sequence that requested nothing
C16_Witness ==
    /\ ShutdownOver /\ envAlive = "not_alive"
    /\ IsSetup /\ running /\ stopCalls = 1 /\ closeEnvCalls = 0

\* C17: a failing liveness check is not fatal: no close-env and no stop is
\* requested, the callback leaves the status indicator alone, and the flow
\* goes on (router.push in handleGoBack, loadSimulationData() on mount).
C17_LivenessFailureNonFatal ==
    /\ [](envAlive = "failed" =>
             /\ closeEnvCalls = 0 /\ stopCalls = 0
             /\ pc = "done" /\ proceeded)
    /\ [][last'.op = "getEnvStatus" => currentStatus' = currentStatus]_vars

\* the liveness request of handleGoBack failed and the view was left
C17_Witness ==
    /\ IsBack /\ envAlive = "failed" /\ last.op = "getEnvStatus"
    /\ last.outcome = RequestFailed /\ proceeded /\ ~mounted

(***************************************************************************)
(* Properties of the API layer                                             *)
(***************************************************************************)
\* C18: each of create, prepare, start, stop and interview is retried with
\* exponential backoff: at most 3 attempts, 1 s slept after the first
\* failure and 2 s after the second, and the error reaches the caller only
\* after the third attempt has failed.
C18_MutatingCallsRetry ==
    (IsApi /\ api \in MutatingCalls) =>
        /\ attempts <= 3
        /\ IsPrefix(waited, <<1000, 2000>>)
        /\ rpc = "thrown" => attempts = 3 /\ waited = <<1000, 2000>>

(***************************************************************************)
(* Properties of the graph panel                                           *)
(***************************************************************************)
\* two fractions are the same number
SameValue(a, b) == a.num * b.den = b.num * a.den

\* two rendered edges that join the same pair of distinct nodes
SamePair(a, b) ==
    /\ ~a.isSelfLoop /\ ~b.isSelfLoop
    /\ {a.source, a.target} = {b.source, b.target}

\* C20 (as stated): in a group of k > 1 edges between the same node pair,
\* recorded in any mix of directions, no two computed curvature values are
\* equal.
C20_CurvaturesDistinct ==
    rendered =>
        \A m, n \in 1..Len(edges) :
            (m # n /\ SamePair(edges[m], edges[n])) =>
                ~SameValue(edges[m].curvature, edges[n].curvature)

\* C20 (amended): in a group of k > 1 edges between the same node pair, two
\* edges recorded in the same direction never get equal curvature values;
\* equal values occur only on two edges recorded in opposite directions.
C20_DistinctPerDirection ==
    rendered =>
        \A m, n \in 1..Len(edges) :
            (m # n /\ SamePair(edges[m], edges[n])
                   /\ SameValue(edges[m].curvature, edges[n].curvature)) =>
                edges[m].source = edges[n].target

\* three edges between one pair were rendered, in mixed directions, and two
\* of them carry the same value
C20_Witness ==
    /\ rendered /\ Len(edges) = 3
    /\ \A m \in 1..3 : edges[m].pairTotal = 3
    /\ edges[1].source # edges[2].source
    /\ SameValue(edges[1].curvature, edges[3].curvature)

\* the curvature of a rendered edge before the negation for a reversed record
Unreversed(e) ==
    IF e.source > e.target
    THEN [num |-> 0 - e.curvature.num, den |-> e.curvature.den]
    ELSE e.curvature

\* C21: an edge alone between its node pair (k = 1) gets curvature 0; in a
\* group of k > 1 edges the edge with index i gets, before the direction
\* negation, ((i/(k-1)) - 0.5) * range(k) with range(k) = min(1.2, 0.6 + 0.15k),
\* so the values of a group lie in [-range(k)/2, +range(k)/2].
C21_CurvatureFormula ==
    rendered =>
        \A m \in 1..Len(edges) :
            ~edges[m].isSelfLoop =>
                LET k == edges[m].pairTotal
                    i == edges[m].pairIndex
                    c == Unreversed(edges[m])
                    range == curvatureRange(k)
                IN IF k = 1 THEN c.num = 0
                   ELSE /\ SameValue(c, [num |-> (2 * i - (k - 1)) * range,
                                         den |-> 200 * (k - 1)])
                        /\ 200 * c.num <= range * c.den
                        /\ 200 * c.num >= 0 - range * c.den

\* the fraction a is less than the fraction b (denominators are positive)
LessValue(a, b) == a.num * b.den < b.num * a.den

\* C35: among the k > 1 edges rendered between the same pair of nodes,
\* recorded in any mix of directions, the indices are 0..k-1, each used
\* once, and the curvature expressed in the canonical direction is strictly
\* increasing with the index, so no two edges of the pair are drawn with the
\* same offset on the same side.
C35_CanonicalSpread ==
    rendered =>
        \A m \in 1..Len(edges) :
            (~edges[m].isSelfLoop /\ edges[m].pairTotal > 1) =>
                LET group == {n \in 1..Len(edges) : SamePair(edges[m], edges[n])}
                IN /\ {edges[n].pairIndex : n \in group}
                        = 0..(edges[m].pairTotal - 1)
                   /\ Cardinality(group) = edges[m].pairTotal
                   /\ \A n \in group :
                        edges[m].pairIndex < edges[n].pairIndex =>
                            /\ LessValue(Unreversed(edges[m]),
                                         Unreversed(edges[n]))
                            /\ LessValue(linkOffset(edges[m]),
                                         linkOffset(edges[n]))

\* three edges between one pair were rendered, the second one recorded
\* against the direction of the other two
C35_Witness ==
    /\ rendered /\ Len(edges) = 3
    /\ \A m \in 1..3 : edges[m].pairTotal = 3 /\ edges[m].pairIndex = m - 1
    /\ edges[1].source < edges[1].target
    /\ edges[2].source > edges[2].target
    /\ edges[3].source < edges[3].target

\* the self-loop records of node n in the snapshot, in snapshot order
SelfLoopsOf(n) ==
    SelectSeq(edgesData, LAMBDA e : /\ e.source_node_uuid = n
                                    /\ e.target_node_uuid = n)

\* the records of the snapshot that join the two distinct nodes a and b
RecordsBetween(a, b) ==
    {j \in 1..Len(edgesData) :
        {edgesData[j].source_node_uuid, edgesData[j].target_node_uuid} = {a, b}}

\* C22: for every node with n >= 1 valid self-loop records in the snapshot
\* the rendered edge list holds exactly one self-loop edge for it, with count
\* n and the list of exactly those n records in snapshot order; a node
\* without self-loop records has no self-loop edge, and no self-loop record
\* becomes an edge of its own or counts toward the multiplicity of a pair.
C22_SelfLoopMerge ==
    rendered =>
        /\ \A n \in nodeIds :
              LET loops == SelfLoopsOf(n)
                  drawn == {m \in 1..Len(edges) :
                              edges[m].isSelfLoop /\ edges[m].source = n}
              IN /\ Cardinality(drawn) = IF Len(loops) >= 1 THEN 1 ELSE 0
                 /\ \A m \in drawn :
                       /\ edges[m].target = n
                       /\ edges[m].rawData.selfLoopCount = Len(loops)
                       /\ edges[m].rawData.selfLoopEdges = loops
        /\ \A m \in 1..Len(edges) :
              ~edges[m].isSelfLoop =>
                  /\ edges[m].source # edges[m].target
                  /\ edges[m].pairTotal =
                        Cardinality(RecordsBetween(edges[m].source,
                                                   edges[m].target))

\* two self-loop records of one node and an edge to the other node were
\* rendered as one self-loop edge and one straight edge
C22_Witness ==
    /\ rendered
    /\ Len(edgesData) = 3 /\ Len(edges) = 2
    /\ \E m \in 1..2 : /\ edges[m].isSelfLoop
                        /\ edges[m].rawData.selfLoopCount = 2
    /\ \E m \in 1..2 : ~edges[m].isSelfLoop /\ edges[m].pairTotal = 1

\* the records of the snapshot whose two endpoints are nodes of the snapshot
ValidRecords ==
    {j \in 1..Len(edgesData) : /\ edgesData[j].source_node_uuid \in nodeIds
                               /\ edgesData[j].target_node_uuid \in nodeIds}

\* the uuids of the records the rendered edges stand for
RenderedUuids ==
    UNION {IF edges[m].isSelfLoop
           THEN {edges[m].rawData.selfLoopEdges[j].uuid :
                    j \in 1..Len(edges[m].rawData.selfLoopEdges)}
           ELSE {edges[m].rawData.uuid} : m \in 1..Len(edges)}

\* C23: every rendered edge has both endpoints in the node set of the
\* snapshot; a record whose source or target is not a node of the snapshot
\* produces no rendered edge, joins no self-loop group and counts toward no
\* pair's multiplicity or indices, while every other record is rendered.
C23_DanglingDropped ==
    rendered =>
        /\ \A m \in 1..Len(edges) : /\ edges[m].source \in nodeIds
                                     /\ edges[m].target \in nodeIds
        /\ RenderedUuids = {edgesData[j].uuid : j \in ValidRecords}
        /\ \A m \in 1..Len(edges) :
              IF edges[m].isSelfLoop
              THEN edges[m].rawData.selfLoopCount =
                     Cardinality({j \in ValidRecords :
                        /\ edgesData[j].source_node_uuid = edges[m].source
                        /\ edgesData[j].target_node_uuid = edges[m].source})
              ELSE LET group == RecordsBetween(edges[m].source,
                                               edges[m].target)
                                    \cap ValidRecords
                   IN /\ edges[m].pairTotal = Cardinality(group)
                      /\ edges[m].pairIndex =
                            Cardinality({j \in group :
                                edgesData[j].uuid < edges[m].rawData.uuid})

\* a record naming an unknown node lies between two records of one pair,
\* and only the two were rendered, as a group of two
C23_Witness ==
    /\ rendered
    /\ Len(edgesData) = 3 /\ Len(edges) = 2
    /\ 2 \notin ValidRecords
    /\ edges[1].pairTotal = 2 /\ edges[2].pairIndex = 1

\* the handlers of a click on an edge: its path, its label background or
\* its label text
EdgeClicks == {"clickLink", "clickLabelBg", "clickLabel"}

\* C24: the selection after a click depends only on that click, from any
\* prior state: a click on a node selects that node, a click on an edge or
\* its label selects that edge, a click on the empty canvas selects nothing;
\* a click while something is selected replaces the selection.
C24_SelectionFollowsClick ==
    /\ last.op = "clickNode" =>
            /\ selectedItem.type = "node"
            /\ selectedItem.data.uuid = click.target
    /\ last.op \in EdgeClicks =>
            /\ selectedItem.type = "edge"
            /\ selectedItem.data = edges[click.target].rawData
    /\ last.op = "clickSvg" => selectedItem.type = "none"

\* an edge was clicked while a node was selected (its circle still carries
\* the stroke of the node click), and the edge is now the selection
C24_Witness ==
    /\ last.op \in EdgeClicks
    /\ selectedItem.type = "edge"
    /\ \E n \in nodeIds : styles.node[n] = "selected"

\* the elements of a selection that carry a highlight attribute
Highlighted(selection) == {x \in DOMAIN selection : selection[x] # "plain"}

\* C25: the highlight after a click is exactly the clicked target's, from
\* any prior selection: after a node click that node and the edges incident
\* to it and nothing else (no other node, no other edge, no edge label);
\* after a click on an edge or its label only that edge and its clicked
\* label, and no node; after a click on the empty canvas nothing.
C25_HighlightExact ==
    /\ last.op = "clickNode" =>
            /\ Highlighted(styles.node) = {click.target}
            /\ Highlighted(styles.link) =
                    {m \in 1..Len(edges) : \/ edges[m].source = click.target
                                           \/ edges[m].target = click.target}
            /\ Highlighted(styles.labelBg) = {}
            /\ Highlighted(styles.label) = {}
    /\ last.op \in EdgeClicks =>
            /\ Highlighted(styles.link) = {click.target}
            /\ Highlighted(styles.labelBg) =
                    IF last.op = "clickLabelBg" THEN {click.target} ELSE {}
            /\ Highlighted(styles.label) =
                    IF last.op = "clickLabel" THEN {click.target} ELSE {}
            /\ Highlighted(styles.node) = {}
    /\ last.op = "clickSvg" =>
            /\ Highlighted(styles.node) = {}
            /\ Highlighted(styles.link) = {}
            /\ Highlighted(styles.labelBg) = {}
            /\ Highlighted(styles.label) = {}

\* C26: toggleSelfLoop(id) flips the expanded state of the item with that
\* record id only and leaves the expanded state of every other item
\* unchanged; toggling the same id twice restores the previous expanded set.
C26_ToggleIndependent ==
    /\ [][last'.op = "toggleSelfLoop" =>
            /\ (click'.target \in expandedSelfLoops')
                    = (click'.target \notin expandedSelfLoops)
            /\ expandedSelfLoops' \ {click'.target}
                    = expandedSelfLoops \ {click'.target}]_vars
    /\ [](\A id \in SelfLoopItems :
            Toggled(Toggled(expandedSelfLoops, id), id) = expandedSelfLoops)

\* an item was collapsed by a toggle while another item of the same list
\* stays expanded
C26_Witness ==
    /\ last.op = "toggleSelfLoop"
    /\ click.target \notin expandedSelfLoops
    /\ expandedSelfLoops \cap SelfLoopItems # {}

(***************************************************************************)
(* Properties of the logs of the environment setup                         *)
(***************************************************************************)
\* C27: a progress line is appended to the log only if its key (stage,
\* current item, total items) differs from the key of the line emitted
\* last, and a prepare-status poll that returns the same in-flight state as
\* the poll before it appends no line, so any number of consecutive polls
\* with an unchanged state append at most one.
C27_ProgressDedup ==
    [][/\ "progress" \in last'.logs => last'.line # last.line
       /\ (last'.op = "pollPrepareStatus" /\ last.polled = last'.polled)
              => "progress" \notin last'.logs]_vars

\* a poll returned, with a description, the in-flight state whose line is
\* the last one in the log, and appended nothing
C27_Witness ==
    /\ mounted
    /\ last.op = "pollPrepareStatus" /\ last.outcome = "processing"
    /\ last.polled.detail.described
    /\ last.polled.detail.key = last.line
    /\ "progress" \notin last.logs

\* C28: a 'profile N/total' line is logged only when the profile count a
\* poll returns is greater than the count logged last; a poll returning the
\* same or a smaller count logs nothing.
C28_ProfileWatermark ==
    [][(last'.op \in {"fetchProfilesRealtime", "loadPreparedProfiles"}
            /\ "profile_progress" \in last'.logs)
          => profiles' > lastLoggedProfileCount]_vars

\* C29: during profile generation the profile list only grows: after any
\* profile response is applied, responses arriving out of order included,
\* the list is at least as long as before.
C29_ProfilesGrowOnly ==
    [][(last'.op \in {"fetchProfilesRealtime", "loadPreparedProfiles"}
            /\ phase = 1)
          => profiles' >= profiles]_vars

\* the environment setup is ready and polls the configuration no more
SetupReady ==
    /\ phase = 4
    /\ currentStatus = "completed"
    /\ configTimer = Null /\ activeConfig = {}

\* C30: when the coarse poller reports the stage 'generating_config' a
\* config poller is started, while a profile response never changes the
\* phase; and if the config endpoint eventually reports a generated
\* configuration then, with the timers firing fairly and the step staying
\* mounted, the sub-phase eventually is 4 (ready) with the status
\* 'completed' and the config poller stopped.
C30_SetupReachesReady ==
    /\ [][/\ (/\ last'.op = "pollPrepareStatus"
               /\ currentStage # "generating_config"
               /\ currentStage' = "generating_config")
              => (configTimer' # Null /\ configTimer' \in activeConfig')
          /\ last'.op = "fetchProfilesRealtime" => phase' = phase]_vars
    /\ (mounted /\ activeConfig # {}) ~> (SetupReady \/ ~mounted)

(***************************************************************************)
(* Properties of the phase entries                                         *)
(***************************************************************************)
\* C19: entering a phase whose job is already running or completed never
\* submits the job again: a project loaded as graph_building or
\* graph_completed leaves no build-graph request, an already prepared
\* simulation gets no status or profile poller, and the simulation-run step
\* mounted for a completed simulation issues no start request.
C19_EntryGuarded ==
    /\ (IsProcess /\ last.op = "loadProject"
           /\ projectData.status \in {"graph_building", "graph_completed"}) =>
           buildReqs = 0
    /\ (IsEnv /\ taskId = Null) => activePoll = {} /\ activeProfiles = {}
    /\ view = "reentry" => BagTotal(startReqs) = 0

\* C36 (as stated): between a start and the next restart the 'Simulation
\* Completed' line is logged and 'completed' is emitted at most once: once
\* the run is completed (phase 2), a further run-status response of the same
\* run signals nothing.
C36_CompletionOnce ==
    [][(phase = 2 /\ last'.op = "fetchRunStatus" /\ ~last'.stale)
          => "completed" \notin last'.logs]_vars

\* C38 (as stated): in every state of the environment-setup step at most
\* one interval runs per poller (status, profiles, config), and every
\* interval that runs is the one its handle holds, so that the stop function
\* of the poller clears it.
C38_OneTimerPerPoller ==
    IsEnv =>
        /\ activePoll \subseteq {pollTimer} \ {Null}
        /\ activeProfiles \subseteq {profilesTimer} \ {Null}
        /\ activeConfig \subseteq {configTimer} \ {Null}

(***************************************************************************)
(* Properties of the graph-building step                                   *)
(***************************************************************************)
\* the requests and timers of the steps that follow the build submission
NoLaterStep ==
    /\ taskReqs = 0 /\ activeTaskPoll = {} /\ taskPollTimer = Null
    /\ finalProjectReqs = 0 /\ finalGraphReqs = 0

C32_ReplacedWholesale ==
    [][(currentPhase = 1 /\ last'.op = "fetchGraphData"
            /\ last'.outcome = "")
          => graphData' = last'.snap]_vars

\* C37 (as stated): once the build task has reported completed and the final
\* snapshot has been loaded, a response to a periodic graph fetch that was
\* in flight when the graph poller was stopped leaves the displayed graph
\* equal to the final snapshot.
C37_FinalGraphKept ==
    [][(/\ currentPhase = 2 /\ graphPollTimer = Null
        /\ last.op = "loadGraph" /\ last.outcome = "final"
        /\ graphData = last.snap
        /\ last'.op = "fetchGraphData"
        /\ graphDataReqs'.poll < graphDataReqs.poll)
          => graphData' = graphData]_vars

(***************************************************************************)
(* Properties of the round-count override                                  *)
(***************************************************************************)
\* C33: the start request carries max_rounds exactly when the user had
\* enabled custom rounds on pressing start, with the value chosen then; a
\* start with automatic rounds, a later one included, carries none.
C33_RoundsOverride ==
    [][startCount' > startCount =>
          /\ startParams'.sent
          /\ startParams'.max_rounds =
                IF chosen.custom THEN chosen.value ELSE Undefined]_vars

\* a later start, with custom rounds moved off the default, carried the
\* value chosen
C33_Witness ==
    /\ IsRounds /\ route = "SimulationRun"
    /\ startCount >= 2
    /\ chosen.custom /\ chosen.value # DefaultRounds
    /\ startParams.sent /\ startParams.max_rounds = chosen.value

(***************************************************************************)
(* Properties of requestWithRetry                                          *)
(***************************************************************************)
\* the call is over: the caller has the value or the error
CallOver == rpc \in {"returned", "thrown"}

\* C34: requestWithRetry(fn, maxRetries, delay) with maxRetries >= 1
\* invokes fn at least once and at most maxRetries times, returns the body
\* of the first successful invocation and invokes fn no more, sleeps
\* delay * 2^i after the i-th failed attempt (i from 0) before the next one,
\* rethrows the error of the last attempt without sleeping, and terminates.
C34_RetryTerminates ==
    /\ []((view = "retry" /\ rpc # "idle" /\ maxRetries >= 1) =>
            /\ attempts \in 1..maxRetries
            /\ waited = [i \in 1..Len(waited) |-> delay * 2 ^ (i - 1)]
            /\ Len(waited) = IF rpc = "sleep" THEN attempts ELSE attempts - 1
            /\ rpc = "returned" => Len(errors) = attempts - 1
            /\ rpc = "thrown" =>
                  /\ attempts = maxRetries /\ Len(errors) = maxRetries
                  /\ thrown = errors[maxRetries]
                  /\ Len(waited) = maxRetries - 1)
    /\ [][/\ last'.op = "attemptSucceeded" =>
                 rpc' = "returned" /\ returned' = last'.outcome
          /\ CallOver => attempts' = attempts]_vars
    /\ (view = "retry" /\ rpc = "request") ~> CallOver

\* a call with a budget of four failed three times, slept d, 2d and 4d, and
\* its fourth request succeeded
C34_Witness ==
    /\ view = "retry" /\ rpc = "returned"
    /\ maxRetries = 4 /\ attempts = 4
    /\ waited = <<delay, 2 * delay, 4 * delay>>
    /\ returned \in Bodies


\* C39: in the simulation-run view at most one graph auto-refresh interval
\* runs at any time; while the view is on screen and go-back has not been
\* invoked an interval runs exactly when the status is 'processing'; once
\* go-back has been invoked, and after the view is unmounted, none runs.
C39_GraphRefreshTimer ==
    IsBack =>
        /\ Cardinality(activeGraphRefresh) <= 1
        /\ activeGraphRefresh \subseteq {graphRefreshTimer} \ {Null}
        /\ pc = "idle" =>
              (activeGraphRefresh # {} <=> currentStatus = "processing")
        /\ pc # "idle" => activeGraphRefresh = {}
        /\ (pc = "done" /\ ~mounted) => graphRefreshTimer = Null

\* go-back was invoked while the status was 'processing': the interval that
\* ran is cleared and the sequence waits for the liveness answer
C39_Witness ==
    /\ IsBack /\ mounted
    /\ pc = "getEnvStatus" /\ last.op = "handleGoBack"
    /\ currentStatus = "processing"
    /\ graphRefreshTimer = Null /\ activeGraphRefresh = {}

\* C40: the highlight stays consistent with the selection in every reachable
\* state of the graph panel, whatever event led to it (the close button of
\* the detail panel and a re-render after a snapshot update or a resize
\* included): with no selection nothing is highlighted, and with a selection
\* the selected node or edge is highlighted.
C40_HighlightFollowsSelection ==
    (IsPanel /\ rendered) =>
        /\ selectedItem.type = "none" =>
                /\ Highlighted(styles.node) = {}
                /\ Highlighted(styles.link) = {}
                /\ Highlighted(styles.labelBg) = {}
                /\ Highlighted(styles.label) = {}
        /\ selectedItem.type = "node" =>
                selectedItem.data.uuid \in Highlighted(styles.node)
        /\ selectedItem.type = "edge" =>
                \E m \in Highlighted(styles.link) :
                    edges[m].rawData = selectedItem.data
=============================================================================
